---- MODULE Spec2Model ----
(***************************************************************************)
(* Sidre data store: Views onto shared Buffers owned by a DataStore.       *)
(* The View operations are translated from axom/sidre/core/View.cpp; the   *)
(* Buffer, DataStore and View.hpp inline members called from there are not *)
(* part of the analysed sources and are modelled from the specification.   *)
(***************************************************************************)
EXTENDS Integers, Sequences, FiniteSets, TLC

VARIABLES views, bufs, last, aborted, scenario, m_name, parent, data, modint,
          arrays, memory, attributes, m_attr_values

vars == <<views, bufs, last, aborted, scenario, m_name, parent, data, modint,
          arrays, memory, attributes, m_attr_values>>

\* the state that the calls on Views and on the DataStore leave alone
apart == <<data, modint, arrays, memory, attributes, m_attr_values>>

(***************************************************************************)
(* Bounds of the model.                                                    *)
(***************************************************************************)
MaxElems == 2
MaxSharedElems == 1
MaxBuffers == 2
MaxStride == 2
MaxOffset == 0

ViewIds == {"va", "vb"}
BufIds == 0 .. (MaxBuffers - 1)
NoBuf == -1

TypeIds == {"INT8_ID", "INT32_ID"}
NO_TYPE_ID == "NO_TYPE_ID"

NullPtr == <<"null", 0>>
ExtPtrs == {<<"ext", 1>>}

States == {"EMPTY", "BUFFER", "EXTERNAL", "SCALAR", "STRING"}

(***************************************************************************)
(* conduit data types: a type id, an element count, a byte offset and a    *)
(* byte stride.                                                            *)
(***************************************************************************)
bytesPerElem(t) ==
  CASE t = "INT8_ID" -> 1
    [] t = "INT32_ID" -> 4
    [] t = "CHAR8_STR_ID" -> 1
    [] OTHER -> 0

EmptyDtype == [type |-> NO_TYPE_ID, num |-> 0, offset |-> 0, stride |-> 0]

default_dtype(t) ==
  IF t = NO_TYPE_ID THEN EmptyDtype
  ELSE [type |-> t, num |-> 1, offset |-> 0, stride |-> bytesPerElem(t)]

\* stride * (n - 1) + element bytes
strided_bytes(dt) == dt.stride * (dt.num - 1) + bytesPerElem(dt.type)

(***************************************************************************)
(* Buffer and DataStore.                                                   *)
(***************************************************************************)
NoBuffer == [exists |-> FALSE, allocated |-> FALSE, type |-> NO_TYPE_ID,
             num |-> 0, views |-> {}]

NewBuffer == [NoBuffer EXCEPT !.exists = TRUE]

BufferGetNumViews(S, b) == Cardinality(S.bufs[b].views)

BufferIsAllocated(S, b) == S.bufs[b].allocated

BufferGetTotalBytes(S, b) == S.bufs[b].num * bytesPerElem(S.bufs[b].type)

BufferGetVoidPtr(S, b) == IF S.bufs[b].allocated THEN <<"buf", b>> ELSE NullPtr

BufferAllocate(S, b, t, n) ==
  IF S.bufs[b].allocated \/ t = NO_TYPE_ID \/ n < 0
  THEN S
  ELSE [S EXCEPT !.bufs[b].allocated = TRUE, !.bufs[b].type = t, !.bufs[b].num = n]

BufferReallocate(S, b, n) ==
  IF n < 0 \/ S.bufs[b].type = NO_TYPE_ID
  THEN S
  ELSE [S EXCEPT !.bufs[b].allocated = TRUE, !.bufs[b].num = n]

BufferDeallocate(S, b) ==
  [S EXCEPT !.bufs[b].allocated = FALSE, !.bufs[b].num = 0]

\* The elements of a Buffer: a sequence of values.  allocateData gives n
\* elements of the values init (what the new memory happens to hold).
allocateData(n, init) == [i \in 1 .. n |-> init[i]]

\* reallocate that takes new memory and copies nothing
reallocateDataFresh(old, n, init) == [i \in 1 .. n |-> init[i]]

\* the first min(old, new) elements are kept, the others hold the values init
reallocateData(old, n, init) ==
  [i \in 1 .. n |-> IF i <= Len(old) THEN old[i] ELSE init[i]]

BufferAttachToView(S, b, v) == [S EXCEPT !.bufs[b].views = @ \cup {v}]

\* the applied description is dropped: no data pointer, m_is_applied = false
unapply(S, v) == [S EXCEPT !.views[v].applied = FALSE, !.views[v].data = NullPtr]

\* the View loses its Buffer and goes back to state EMPTY, not applied
setBufferViewToEmpty(S, v) ==
  unapply([S EXCEPT !.views[v].buf = NoBuf, !.views[v].state = "EMPTY"], v)

BufferDetachFromView(S, b, v) ==
  setBufferViewToEmpty([S EXCEPT !.bufs[b].views = @ \ {v}], v)

FreeIndices(S) == {b \in BufIds : ~S.bufs[b].exists}

\* the highest index that is not in use
LastFreeIndex(S) == CHOOSE b \in FreeIndices(S) : \A c \in FreeIndices(S) : b >= c

\* the lowest index that is not in use
NextFreeIndex(S) == CHOOSE b \in FreeIndices(S) : \A c \in FreeIndices(S) : b <= c

\* S.full records that the bounded slot table of the model had no free index
createBuffer(S) ==
  IF FreeIndices(S) = {} THEN [S EXCEPT !.full = TRUE]
  ELSE [S EXCEPT !.bufs[NextFreeIndex(S)] = NewBuffer]

destroyBuffer(S, b) == [S EXCEPT !.bufs[b] = NoBuffer]

(***************************************************************************)
(* View: state queries.                                                    *)
(***************************************************************************)
NoValue == 0

NewView == [state |-> "EMPTY", type |-> NO_TYPE_ID, num |-> 0, offset |-> 0,
            stride |-> 0, shape |-> <<>>, applied |-> FALSE, buf |-> NoBuf,
            ext |-> NullPtr, data |-> NullPtr, value |-> NoValue]

schemaDtype(vw) ==
  [type |-> vw.type, num |-> vw.num, offset |-> vw.offset, stride |-> vw.stride]

isDescribed(S, v) == S.views[v].type # NO_TYPE_ID

isApplied(S, v) == S.views[v].applied

hasBuffer(S, v) == S.views[v].buf # NoBuf

getTotalBytes(S, v) == strided_bytes(schemaDtype(S.views[v]))

\* the address of the value a SCALAR or STRING View holds in its own node
ValuePtr == <<"value", 0>>

\* m_node.data_ptr() is the pointer the last apply() gave to the node
getVoidPtr(S, v) ==
  LET vw == S.views[v] IN
  CASE vw.state = "EMPTY" -> NullPtr
    [] vw.state = "EXTERNAL" -> IF isApplied(S, v) THEN vw.data ELSE vw.ext
    [] vw.state = "BUFFER" -> IF isApplied(S, v) THEN vw.data ELSE NullPtr
    [] OTHER -> ValuePtr

isAllocated(S, v) ==
  LET vw == S.views[v] IN
  CASE vw.state = "EMPTY" -> FALSE
    [] vw.state = "BUFFER" -> isDescribed(S, v) /\ BufferIsAllocated(S, vw.buf)
    [] OTHER -> TRUE

\* isAllocateValid without the single-owner test
isAllocateValidShared(S, v) ==
  LET vw == S.views[v] IN
  CASE vw.state = "EMPTY" -> isDescribed(S, v)
    [] vw.state = "BUFFER" -> isDescribed(S, v)
    [] OTHER -> FALSE

\* isAllocateValid without the description test on an EMPTY View
isAllocateValidUndescribed(S, v) ==
  LET vw == S.views[v] IN
  CASE vw.state = "EMPTY" -> TRUE
    [] vw.state = "BUFFER" -> isDescribed(S, v) /\ BufferGetNumViews(S, vw.buf) = 1
    [] OTHER -> FALSE

isAllocateValid(S, v) ==
  LET vw == S.views[v] IN
  CASE vw.state = "EMPTY" -> isDescribed(S, v)
    [] vw.state = "BUFFER" -> isDescribed(S, v) /\ BufferGetNumViews(S, vw.buf) = 1
    [] OTHER -> FALSE

\* isApplyValid without the comparison of byte extents
isApplyValidNoFit(S, v) ==
  LET vw == S.views[v] IN
  IF ~isDescribed(S, v) THEN FALSE
  ELSE vw.state \in {"EXTERNAL", "BUFFER"}

isApplyValid(S, v) ==
  LET vw == S.views[v] IN
  IF ~isDescribed(S, v) THEN FALSE
  ELSE CASE vw.state = "EXTERNAL" -> isDescribed(S, v)
         [] vw.state = "BUFFER" ->
              0 <= getTotalBytes(S, v)
              /\ getTotalBytes(S, v) <= BufferGetTotalBytes(S, vw.buf)
         [] OTHER -> FALSE

(***************************************************************************)
(* View: description.                                                      *)
(***************************************************************************)
describeDtype(S, v, dt) ==
  [S EXCEPT !.views[v].type = dt.type, !.views[v].num = dt.num,
            !.views[v].offset = dt.offset, !.views[v].stride = dt.stride,
            !.views[v].shape = <<dt.num>>, !.views[v].applied = FALSE]

describe(S, v, t, n) == describeDtype(S, v, [default_dtype(t) EXCEPT !.num = n])

(***************************************************************************)
(* View: apply, allocate, reallocate, deallocate.                          *)
(***************************************************************************)
\* apply() that drops the applied description of a View that is applied already
applyOnce(S, v) ==
  IF ~isApplyValid(S, v) THEN S
  ELSE IF S.views[v].applied THEN unapply(S, v)
  ELSE LET vw == S.views[v]
           data_pointer == IF hasBuffer(S, v) THEN BufferGetVoidPtr(S, vw.buf)
                           ELSE vw.ext
       IN [S EXCEPT !.views[v].data = data_pointer, !.views[v].applied = TRUE]

apply(S, v) ==
  IF ~isApplyValid(S, v) THEN S
  ELSE LET vw == S.views[v]
           data_pointer == IF hasBuffer(S, v) THEN BufferGetVoidPtr(S, vw.buf)
                           ELSE vw.ext
       IN [S EXCEPT !.views[v].data = data_pointer, !.views[v].applied = TRUE]

allocate(S, v) ==
  IF isAllocateValid(S, v)
  THEN LET S1 == IF S.views[v].state = "EMPTY"
                 THEN LET b == NextFreeIndex(S)
                      IN BufferAttachToView(
                           [createBuffer(S) EXCEPT !.views[v].buf = b,
                                                   !.views[v].state = "BUFFER"],
                           b, v)
                 ELSE S
           vw == S1.views[v]
       IN IF S.views[v].state = "EMPTY" /\ FreeIndices(S) = {}
          THEN createBuffer(S)
          ELSE apply(BufferAllocate(S1, vw.buf, vw.type, vw.num), v)
  ELSE S

allocateTN(S, v, t, n) ==
  IF t = NO_TYPE_ID \/ n < 0 THEN S
  ELSE allocate(describe(S, v, t, n), v)

allocateDtype(S, v, dt) ==
  IF dt.type = NO_TYPE_ID THEN S
  ELSE allocate(describeDtype(S, v, dt), v)

(***************************************************************************)
(* DataView: the earlier implementation of View.  Its allocate and apply   *)
(* are those of View; its isApplyValid wants more than zero bytes.         *)
(***************************************************************************)
isApplyValidDataView(S, v) ==
  LET vw == S.views[v] IN
  IF ~isDescribed(S, v) THEN FALSE
  ELSE CASE vw.state = "EXTERNAL" -> isDescribed(S, v)
         [] vw.state = "BUFFER" ->
              0 < getTotalBytes(S, v)
              /\ getTotalBytes(S, v) <= BufferGetTotalBytes(S, vw.buf)
         [] OTHER -> FALSE

applyDataView(S, v) ==
  IF ~isApplyValidDataView(S, v) THEN S
  ELSE LET vw == S.views[v]
           data_pointer == IF hasBuffer(S, v) THEN BufferGetVoidPtr(S, vw.buf)
                           ELSE vw.ext
       IN [S EXCEPT !.views[v].data = data_pointer, !.views[v].applied = TRUE]

allocateDataView(S, v) ==
  IF isAllocateValid(S, v)
  THEN LET S1 == IF S.views[v].state = "EMPTY"
                 THEN LET b == NextFreeIndex(S)
                      IN BufferAttachToView(
                           [createBuffer(S) EXCEPT !.views[v].buf = b,
                                                   !.views[v].state = "BUFFER"],
                           b, v)
                 ELSE S
           vw == S1.views[v]
       IN IF S.views[v].state = "EMPTY" /\ FreeIndices(S) = {}
          THEN createBuffer(S)
          ELSE applyDataView(BufferAllocate(S1, vw.buf, vw.type, vw.num), v)
  ELSE S

allocateTNDataView(S, v, t, n) ==
  IF t = NO_TYPE_ID \/ n < 0 THEN S
  ELSE allocateDataView(describe(S, v, t, n), v)

reallocate(S, v, n) ==
  LET vtype == S.views[v].type IN
  IF n < 0 THEN S
  ELSE IF isAllocateValid(S, v)
  THEN IF S.views[v].state = "EMPTY"
       THEN allocateTN(S, v, vtype, n)
       ELSE IF BufferIsAllocated(S, S.views[v].buf)
       THEN LET S1 == describe(S, v, vtype, n)
            IN apply(BufferReallocate(S1, S1.views[v].buf, n), v)
       ELSE allocateTN(S, v, vtype, n)
  ELSE S

deallocate(S, v) ==
  IF ~isAllocateValid(S, v) THEN S
  ELSE IF hasBuffer(S, v) THEN BufferDeallocate(S, S.views[v].buf)
  ELSE S

reallocateDtype(S, v, dt) ==
  IF ~isAllocated(S, v) THEN allocateDtype(S, v, dt)
  ELSE IF dt.type = NO_TYPE_ID \/ ~isAllocateValid(S, v) \/ dt.type # S.views[v].type
  THEN S
  ELSE LET S1 == describeDtype(S, v, dt)
       IN apply(BufferReallocate(S1, S1.views[v].buf, dt.num), v)

allocateDtypeDataView(S, v, dt) ==
  IF dt.type = NO_TYPE_ID THEN S
  ELSE allocateDataView(describeDtype(S, v, dt), v)

reallocateDtypeDataView(S, v, dt) ==
  IF ~isAllocated(S, v) THEN allocateDtypeDataView(S, v, dt)
  ELSE IF dt.type = NO_TYPE_ID \/ ~isAllocateValid(S, v) \/ dt.type # S.views[v].type
  THEN S
  ELSE LET S1 == describeDtype(S, v, dt)
       IN applyDataView(BufferReallocate(S1, S1.views[v].buf, dt.num), v)

(***************************************************************************)
(* View: attachBuffer, detachBuffer, setExternalDataPtr.                   *)
(***************************************************************************)
\* detachBuffer that forgets to take the View out of the Buffer's view set
detachBufferViewOnly(S, v) ==
  IF S.views[v].state = "BUFFER"
  THEN setBufferViewToEmpty(S, v)
  ELSE S

detachBuffer(S, v) ==
  IF S.views[v].state = "BUFFER"
  THEN BufferDetachFromView(S, S.views[v].buf, v)
  ELSE S

\* attachBuffer that never destroys the Buffer it detaches from
attachBufferNeverDestroy(S, v, buff) ==
  IF S.views[v].state = "BUFFER" /\ buff = NoBuf
  THEN detachBuffer(S, v)
  ELSE IF S.views[v].state = "EMPTY" /\ buff # NoBuf
  THEN LET S1 == BufferAttachToView(
                   [S EXCEPT !.views[v].buf = buff, !.views[v].state = "BUFFER"],
                   buff, v)
       IN IF isDescribed(S1, v) /\ BufferIsAllocated(S1, buff)
          THEN apply(S1, v)
          ELSE S1
  ELSE S

\* attachBuffer that destroys the Buffer it detaches from without looking at
\* the Buffer's view count
attachBufferAlwaysDestroy(S, v, buff) ==
  IF S.views[v].state = "BUFFER" /\ buff = NoBuf
  THEN destroyBuffer(detachBuffer(S, v), S.views[v].buf)
  ELSE IF S.views[v].state = "EMPTY" /\ buff # NoBuf
  THEN LET S1 == BufferAttachToView(
                   [S EXCEPT !.views[v].buf = buff, !.views[v].state = "BUFFER"],
                   buff, v)
       IN IF isDescribed(S1, v) /\ BufferIsAllocated(S1, buff)
          THEN apply(S1, v)
          ELSE S1
  ELSE S

\* attachBuffer that links a Buffer in any state
attachBufferAnyState(S, v, buff) ==
  IF S.views[v].state = "BUFFER" /\ buff = NoBuf
  THEN LET old_buffer == S.views[v].buf
           S1 == detachBuffer(S, v)
       IN IF BufferGetNumViews(S1, old_buffer) = 0
          THEN destroyBuffer(S1, old_buffer)
          ELSE S1
  ELSE IF buff # NoBuf
  THEN LET S1 == BufferAttachToView(
                   [S EXCEPT !.views[v].buf = buff, !.views[v].state = "BUFFER"],
                   buff, v)
       IN IF isDescribed(S1, v) /\ BufferIsAllocated(S1, buff)
          THEN apply(S1, v)
          ELSE S1
  ELSE S

attachBuffer(S, v, buff) ==
  IF S.views[v].state = "BUFFER" /\ buff = NoBuf
  THEN LET old_buffer == S.views[v].buf
           S1 == detachBuffer(S, v)
       IN IF BufferGetNumViews(S1, old_buffer) = 0
          THEN destroyBuffer(S1, old_buffer)
          ELSE S1
  ELSE IF S.views[v].state = "EMPTY" /\ buff # NoBuf
  THEN LET S1 == BufferAttachToView(
                   [S EXCEPT !.views[v].buf = buff, !.views[v].state = "BUFFER"],
                   buff, v)
       IN IF isDescribed(S1, v) /\ BufferIsAllocated(S1, buff)
          THEN apply(S1, v)
          ELSE S1
  ELSE S

\* setExternalDataPtr without the apply of an existing description
setExternalDataPtrNoApply(S, v, external_ptr) ==
  IF S.views[v].state = "EMPTY" \/ S.views[v].state = "EXTERNAL"
  THEN IF external_ptr = NullPtr
       THEN [unapply(S, v) EXCEPT !.views[v].ext = NullPtr,
                                  !.views[v].state = "EMPTY"]
       ELSE [S EXCEPT !.views[v].ext = external_ptr,
                      !.views[v].state = "EXTERNAL"]
  ELSE S

setExternalDataPtr(S, v, external_ptr) ==
  IF S.views[v].state = "EMPTY" \/ S.views[v].state = "EXTERNAL"
  THEN IF external_ptr = NullPtr
       THEN [unapply(S, v) EXCEPT !.views[v].ext = NullPtr,
                                  !.views[v].state = "EMPTY"]
       ELSE LET S1 == [S EXCEPT !.views[v].ext = external_ptr,
                                !.views[v].state = "EXTERNAL"]
            IN IF isDescribed(S1, v) THEN apply(S1, v) ELSE S1
  ELSE S

(***************************************************************************)
(* View: apply with a description.  garbage is what a read through a null  *)
(* Buffer pointer yields: "crash", or any type id.                         *)
(***************************************************************************)
applyNOS(S, v, num_elems, offset, stride, garbage) ==
  IF num_elems < 0 THEN S
  ELSE IF S.views[v].type = NO_TYPE_ID /\ S.views[v].buf = NoBuf /\ garbage = "crash"
  THEN [S EXCEPT !.aborted = TRUE]
  ELSE LET dtype == IF S.views[v].type # NO_TYPE_ID
                    THEN schemaDtype(S.views[v])
                    ELSE IF S.views[v].buf # NoBuf
                    THEN default_dtype(S.bufs[S.views[v].buf].type)
                    ELSE default_dtype(garbage)
           bytes_per_elem == bytesPerElem(dtype.type)
           dt == [dtype EXCEPT !.num = num_elems,
                               !.offset = offset * bytes_per_elem,
                               !.stride = stride * bytes_per_elem]
       IN apply(describeDtype(S, v, dt), v)

applyTNOS(S, v, t, num_elems, offset, stride) ==
  IF t = NO_TYPE_ID \/ num_elems < 0 THEN S
  ELSE LET bytes_per_elem == bytesPerElem(t)
           dt == [default_dtype(t) EXCEPT !.num = num_elems,
                                          !.offset = offset * bytes_per_elem,
                                          !.stride = stride * bytes_per_elem]
       IN apply(describeDtype(S, v, dt), v)

applyDtype(S, v, dt) ==
  IF dt.type = NO_TYPE_ID THEN S
  ELSE apply(describeDtype(S, v, dt), v)

(***************************************************************************)
(* View: inline values.                                                    *)
(***************************************************************************)
setScalar(S, v, val) ==
  IF S.views[v].state = "EMPTY" \/ S.views[v].state = "SCALAR"
  THEN [S EXCEPT !.views[v].value = val, !.views[v].state = "SCALAR",
                 !.views[v].type = "INT32_ID", !.views[v].num = 1,
                 !.views[v].offset = 0, !.views[v].stride = 4,
                 !.views[v].shape = <<1>>, !.views[v].applied = TRUE]
  ELSE S

setString(S, v, val) ==
  IF S.views[v].state = "EMPTY" \/ S.views[v].state = "STRING"
  THEN [S EXCEPT !.views[v].value = val, !.views[v].state = "STRING",
                 !.views[v].type = "CHAR8_STR_ID", !.views[v].num = 2,
                 !.views[v].offset = 0, !.views[v].stride = 1,
                 !.views[v].shape = <<2>>, !.views[v].applied = TRUE]
  ELSE S

(***************************************************************************)
(* View: copyView.  copy is an EMPTY View that has no description.         *)
(***************************************************************************)
\* copyView that copies the Buffer pointer and the state tag only
copyViewNoAttach(S, v, copy) ==
  LET vw == S.views[v]
      S1 == IF isDescribed(S, v) THEN describeDtype(S, copy, schemaDtype(vw)) ELSE S
  IN CASE vw.state = "EMPTY" -> S1
       [] vw.state \in {"STRING", "SCALAR"} ->
            [S1 EXCEPT !.views[copy].value = vw.value,
                       !.views[copy].state = vw.state,
                       !.views[copy].applied = TRUE]
       [] vw.state = "EXTERNAL" -> setExternalDataPtr(S1, copy, vw.ext)
       [] vw.state = "BUFFER" ->
            [S1 EXCEPT !.views[copy].buf = vw.buf, !.views[copy].state = "BUFFER"]

copyView(S, v, copy) ==
  LET vw == S.views[v]
      S1 == IF isDescribed(S, v) THEN describeDtype(S, copy, schemaDtype(vw)) ELSE S
  IN CASE vw.state = "EMPTY" -> S1
       [] vw.state \in {"STRING", "SCALAR"} ->
            [S1 EXCEPT !.views[copy].value = vw.value,
                       !.views[copy].state = vw.state,
                       !.views[copy].applied = TRUE]
       [] vw.state = "EXTERNAL" -> setExternalDataPtr(S1, copy, vw.ext)
       [] vw.state = "BUFFER" -> attachBuffer(S1, copy, vw.buf)

(***************************************************************************)
(* View: export and import.  A data_holder is the node written for one     *)
(* View; its "attribute" node is that of exportAttribute.                  *)
(***************************************************************************)
\* a State is written in the model by the name of its enumerator; the names
\* below are the string literals of the code
getStateStringName(state) ==
  CASE state = "EMPTY" -> "EMPTY"
    [] state = "BUFFER" -> "BUFFER"
    [] state = "EXTERNAL" -> "EXTERNAL"
    [] state = "SCALAR" -> "SCALAR"
    [] state = "STRING" -> "STRING"
    [] OTHER -> "UNKNOWN"

\* getStateId without the branch for "STRING"
getStateIdNoString(name) ==
  IF name = "EMPTY" THEN "EMPTY"
  ELSE IF name = "BUFFER" THEN "BUFFER"
  ELSE IF name = "EXTERNAL" THEN "EXTERNAL"
  ELSE IF name = "SCALAR" THEN "SCALAR"
  ELSE IF name = "UNKNOWN" THEN "EMPTY"
  ELSE "EMPTY"

getStateId(name) ==
  IF name = "EMPTY" THEN "EMPTY"
  ELSE IF name = "BUFFER" THEN "BUFFER"
  ELSE IF name = "EXTERNAL" THEN "EXTERNAL"
  ELSE IF name = "SCALAR" THEN "SCALAR"
  ELSE IF name = "STRING" THEN "STRING"
  ELSE IF name = "UNKNOWN" THEN "EMPTY"
  ELSE "EMPTY"

\* conduit's name of a type in a JSON schema
dtypeName(t) ==
  CASE t = "INT8_ID" -> "int8"
    [] t = "INT32_ID" -> "int32"
    [] t = "CHAR8_STR_ID" -> "char8_str"
    [] OTHER -> "empty"

dtypeId(name) ==
  CASE name = "int8" -> "INT8_ID"
    [] name = "int32" -> "INT32_ID"
    [] name = "char8_str" -> "CHAR8_STR_ID"
    [] OTHER -> NO_TYPE_ID

to_json(dt) ==
  [dtype |-> dtypeName(dt.type), number_of_elements |-> dt.num,
   offset |-> dt.offset, stride |-> dt.stride,
   element_bytes |-> bytesPerElem(dt.type)]

from_json(js) ==
  [type |-> dtypeId(js.dtype), num |-> js.number_of_elements,
   offset |-> js.offset, stride |-> js.stride]

NoSchema == to_json(EmptyDtype)

\* the schema of the node of a SCALAR or STRING View: one INT32, or a
\* one-character string with its terminator
valueDtype(state) ==
  IF state = "SCALAR"
  THEN [type |-> "INT32_ID", num |-> 1, offset |-> 0, stride |-> 4]
  ELSE [type |-> "CHAR8_STR_ID", num |-> 2, offset |-> 0, stride |-> 1]

EmptyHolder ==
  [state |-> "UNKNOWN", has_schema |-> FALSE, schema |-> NoSchema,
   has_buffer_id |-> FALSE, buffer_id |-> NoBuf, is_applied |-> FALSE,
   has_value |-> FALSE, value |-> NoValue, value_schema |-> NoSchema]

exportDescription(S, v, data_holder) ==
  [data_holder EXCEPT !.has_schema = TRUE,
                      !.schema = to_json(schemaDtype(S.views[v]))]

exportTo(S, v) ==
  LET vw == S.views[v]
      dh == [EmptyHolder EXCEPT !.state = getStateStringName(vw.state)]
  IN CASE vw.state = "EMPTY" ->
            IF isDescribed(S, v) THEN exportDescription(S, v, dh) ELSE dh
       [] vw.state = "BUFFER" ->
            LET d1 == [dh EXCEPT !.has_buffer_id = TRUE, !.buffer_id = vw.buf]
                d2 == IF isDescribed(S, v) THEN exportDescription(S, v, d1) ELSE d1
            IN [d2 EXCEPT !.is_applied = vw.applied]
       [] vw.state = "EXTERNAL" ->
            IF isDescribed(S, v) THEN exportDescription(S, v, dh)
            ELSE [dh EXCEPT !.state = getStateStringName("EMPTY")]
       [] OTHER ->
            [dh EXCEPT !.has_value = TRUE, !.value = vw.value,
                       !.value_schema = to_json(valueDtype(vw.state))]

\* exportTo() that records the index of every Buffer of the DataStore
exportedIndicesAll(S) == {b \in BufIds : S.bufs[b].exists}

\* the Buffer indices exportTo puts into buffer_indices
exportedIndices(S) ==
  {S.views[v].buf : v \in {w \in ViewIds : S.views[w].state = "BUFFER"}}

importDescription(S, v, data_holder) ==
  IF data_holder.has_schema
  THEN describeDtype(S, v, from_json(data_holder.schema))
  ELSE S

\* importFrom() that attaches every View to the first restored Buffer
importFromFirstBuffer(S, v, data_holder, buffer_id_map) ==
  LET st == getStateId(data_holder.state)
      S0 == [S EXCEPT !.views[v].state = st]
  IN CASE st = "EMPTY" -> importDescription(S0, v, data_holder)
       [] st = "BUFFER" ->
            LET S1 == [S0 EXCEPT !.views[v].state = "EMPTY"]
                buffer == 0
                S2 == importDescription(S1, v, data_holder)
                S3 == attachBuffer(S2, v, buffer)
            IN IF data_holder.is_applied THEN apply(S3, v) ELSE S3
       [] st = "EXTERNAL" -> importDescription(S0, v, data_holder)
       [] OTHER ->
            LET dt == from_json(data_holder.value_schema)
            IN [S0 EXCEPT !.views[v].value = data_holder.value,
                          !.views[v].type = dt.type, !.views[v].num = dt.num,
                          !.views[v].offset = dt.offset,
                          !.views[v].stride = dt.stride,
                          !.views[v].applied = TRUE]

\* importFrom() that takes Buffer 0 for a buffer_id the map does not have
importFromDefaultId(S, v, data_holder, buffer_id_map) ==
  LET st == getStateId(data_holder.state)
      S0 == [S EXCEPT !.views[v].state = st]
  IN CASE st = "EMPTY" -> importDescription(S0, v, data_holder)
       [] st = "BUFFER" ->
            LET S1 == [S0 EXCEPT !.views[v].state = "EMPTY"]
                buffer == IF data_holder.buffer_id \in DOMAIN buffer_id_map
                          THEN buffer_id_map[data_holder.buffer_id]
                          ELSE 0
                S2 == importDescription(S1, v, data_holder)
                S3 == attachBuffer(S2, v, buffer)
            IN IF data_holder.is_applied THEN apply(S3, v) ELSE S3
       [] st = "EXTERNAL" -> importDescription(S0, v, data_holder)
       [] OTHER ->
            LET dt == from_json(data_holder.value_schema)
            IN [S0 EXCEPT !.views[v].value = data_holder.value,
                          !.views[v].type = dt.type, !.views[v].num = dt.num,
                          !.views[v].offset = dt.offset,
                          !.views[v].stride = dt.stride,
                          !.views[v].applied = TRUE]

\* a buffer_id without an entry in the map ends the process, at the
\* SLIC_ASSERT_MSG or, where that is compiled out, at the exception that
\* buffer_id_map.at() throws; m_state is EMPTY by then
importFrom(S, v, data_holder, buffer_id_map) ==
  LET st == getStateId(data_holder.state)
      S0 == [S EXCEPT !.views[v].state = st]
  IN CASE st = "EMPTY" -> importDescription(S0, v, data_holder)
       [] st = "BUFFER" ->
            LET S1 == [S0 EXCEPT !.views[v].state = "EMPTY"]
            IN IF data_holder.buffer_id \notin DOMAIN buffer_id_map
               THEN [S1 EXCEPT !.aborted = TRUE]
               ELSE LET buffer == buffer_id_map[data_holder.buffer_id]
                        S2 == importDescription(S1, v, data_holder)
                        S3 == attachBuffer(S2, v, buffer)
                    IN IF data_holder.is_applied THEN apply(S3, v) ELSE S3
       [] st = "EXTERNAL" -> importDescription(S0, v, data_holder)
       [] OTHER ->
            LET dt == from_json(data_holder.value_schema)
            IN [S0 EXCEPT !.views[v].value = data_holder.value,
                          !.views[v].type = dt.type, !.views[v].num = dt.num,
                          !.views[v].offset = dt.offset,
                          !.views[v].stride = dt.stride,
                          !.views[v].applied = TRUE]

(***************************************************************************)
(* View: attributes.  The DataStore holds the Attributes that are defined, *)
(* by name; m_attr_values of a View holds a value for those that were set. *)
(***************************************************************************)
AttrNames == {"color", "size"}
AttrValues == {"red", "big"}
NoAttrValues == [n \in {} |-> "none"]
NoAttribute == "nullptr"

\* DataStore::getAttribute(name): the Attribute, or a null pointer
getAttribute(defined, name) == IF name \in defined THEN name ELSE NoAttribute

\* m_attr_values.setString(attr, value) and m_attr_values.setNode(attr, node)
setNode(vals, attr, value) ==
  [n \in (DOMAIN vals) \cup {attr} |-> IF n = attr THEN value ELSE vals[n]]

setAttributeString(vals, defined, name, value) ==
  LET attr == getAttribute(defined, name)
  IN IF attr = NoAttribute THEN vals ELSE setNode(vals, attr, value)

\* the "attribute" node: one child for each Attribute that has a value
exportAttribute(vals) == vals

\* importAttribute() that sets every child of the node
importAttributeAll(vals, defined, node) ==
  [n \in (DOMAIN vals) \cup (DOMAIN node) |->
     IF n \in DOMAIN node THEN node[n] ELSE vals[n]]

\* the children are visited one by one; names are distinct, so the order
\* does not matter
RECURSIVE importAttribute(_, _, _)
importAttribute(vals, defined, node) ==
  IF DOMAIN node = {} THEN vals
  ELSE LET attr_name == CHOOSE n \in DOMAIN node : TRUE
           rest == [n \in (DOMAIN node) \ {attr_name} |-> node[n]]
           attr == getAttribute(defined, attr_name)
       IN importAttribute(IF attr # NoAttribute
                          THEN setNode(vals, attr, node[attr_name])
                          ELSE vals,
                          defined, rest)

(***************************************************************************)
(* DataStore: save the tree and load it into a new DataStore.  Only the    *)
(* Buffers some View refers to are written; they are restored first, with  *)
(* new indices, and the Views after them.                                  *)
(***************************************************************************)
save(S) ==
  [views |-> [v \in ViewIds |-> exportTo(S, v)],
   buffers |-> [b \in exportedIndices(S) |-> S.bufs[b]]]

\* the new index of a restored Buffer: Buffers are created in the order of
\* their old indices in an empty DataStore
newBufferId(doc, b) == Cardinality({c \in DOMAIN doc.buffers : c < b})

bufferIdMap(doc) == [b \in DOMAIN doc.buffers |-> newBufferId(doc, b)]

loadBuffers(doc) ==
  [n \in BufIds |->
     IF \E b \in DOMAIN doc.buffers : newBufferId(doc, b) = n
     THEN LET b == CHOOSE c \in DOMAIN doc.buffers : newBufferId(doc, c) = n
          IN [doc.buffers[b] EXCEPT !.views = {}]
     ELSE NoBuffer]

RECURSIVE loadViews(_, _, _)
loadViews(S, doc, todo) ==
  IF todo = {} \/ S.aborted THEN S
  ELSE LET v == CHOOSE w \in todo : TRUE
       IN loadViews(importFrom(S, v, doc.views[v], bufferIdMap(doc)), doc,
                    todo \ {v})

load(doc) ==
  loadViews([views |-> [v \in ViewIds |-> NewView], bufs |-> loadBuffers(doc),
             full |-> FALSE, aborted |-> FALSE],
            doc, ViewIds)

(***************************************************************************)
(* View: getOffset and getStride.  The description stores byte values as   *)
(* 64-bit index_t; they are kept here as [hi, lo] with value               *)
(* hi * 2^16 + lo.  getOffset and getStride read them into an int.         *)
(***************************************************************************)
TwoTo16 == 65536

\* the largest int
INT_MAX == 2147483647

Wide(x) == [hi |-> x \div TwoTo16, lo |-> x % TwoTo16]

\* offset * bytes_per_elem, for 0 <= x <= INT_MAX and a small w
WideTimes(x, w) ==
  LET low == (x % TwoTo16) * w
  IN [hi |-> (x \div TwoTo16) * w + low \div TwoTo16, lo |-> low % TwoTo16]

\* conversion of an index_t to int: the low 32 bits, as a signed number
toInt(wide) ==
  LET hi16 == wide.hi % TwoTo16
  IN IF hi16 >= TwoTo16 \div 2
     THEN (hi16 - TwoTo16) * TwoTo16 + wide.lo
     ELSE hi16 * TwoTo16 + wide.lo

\* a % b and a / b of C++ on ints, for b > 0: the quotient is rounded to 0
cRem(a, b) == IF a < 0 /\ a % b # 0 THEN (a % b) - b ELSE a % b

cQuot(a, b) == IF a < 0 /\ a % b # 0 THEN (a \div b) + 1 ELSE a \div b

\* getOffset() and getStride() on a description of element type t that stores
\* the byte value bytes; not_described is what an undescribed View returns.
\* SLIC_ERROR_IF logs and, when abort_on_error is set, ends the process.
elementsOf(t, bytes, not_described, abort_on_error) ==
  IF t = NO_TYPE_ID
  THEN [ret |-> not_described, returned |-> TRUE, error |-> FALSE,
        aborted |-> FALSE]
  ELSE LET value == toInt(bytes)
           bytes_per_elem == bytesPerElem(t)
       IN IF bytes_per_elem # 0
          THEN LET err == cRem(value, bytes_per_elem) # 0
               IN IF err /\ abort_on_error
                  THEN [ret |-> 0, returned |-> FALSE, error |-> TRUE,
                        aborted |-> TRUE]
                  ELSE [ret |-> cQuot(value, bytes_per_elem), returned |-> TRUE,
                        error |-> err, aborted |-> FALSE]
          ELSE [ret |-> value, returned |-> TRUE, error |-> FALSE,
                aborted |-> FALSE]

getOffsetOf(t, bytes, abort_on_error) == elementsOf(t, bytes, 0, abort_on_error)

getStrideOf(t, bytes, abort_on_error) == elementsOf(t, bytes, 1, abort_on_error)

getOffset(S, v, abort_on_error) ==
  getOffsetOf(S.views[v].type, Wide(S.views[v].offset), abort_on_error)

getStride(S, v, abort_on_error) ==
  getStrideOf(S.views[v].type, Wide(S.views[v].stride), abort_on_error)

(***************************************************************************)
(* View: destruction.  The destructor detaches the View from its Buffer;   *)
(* the slot of the View then stands for a View created anew.               *)
(***************************************************************************)
destructor(S, v) ==
  IF S.views[v].buf # NoBuf
  THEN BufferDetachFromView(S, S.views[v].buf, v)
  ELSE S

destroyView(S, v) == [destructor(S, v) EXCEPT !.views[v] = NewView]

(***************************************************************************)
(* View: isEquivalentTo.  The two Views may be in different DataStores,    *)
(* S and O; a View keeps its name when the tree is saved and loaded.       *)
(***************************************************************************)
getTypeID(S, v) == IF isDescribed(S, v) THEN S.views[v].type ELSE NO_TYPE_ID

\* isEquivalentTo() that also wants the two Views to be on the same Buffer index
isEquivalentToSameBuffer(S, v, O, w, names) ==
  /\ names[v] = names[w]
  /\ getTypeID(S, v) = getTypeID(O, w)
  /\ isApplied(S, v) = isApplied(O, w)
  /\ hasBuffer(S, v) = hasBuffer(O, w)
  /\ getTotalBytes(S, v) = getTotalBytes(O, w)
  /\ S.views[v].buf = O.views[w].buf

isEquivalentTo(S, v, O, w, names) ==
  /\ names[v] = names[w]
  /\ getTypeID(S, v) = getTypeID(O, w)
  /\ isApplied(S, v) = isApplied(O, w)
  /\ hasBuffer(S, v) = hasBuffer(O, w)
  /\ getTotalBytes(S, v) = getTotalBytes(O, w)

(***************************************************************************)
(* View: rename.  A name is a sequence of characters; the parent Group     *)
(* holds its child Views by name and the names of its child Groups.        *)
(***************************************************************************)
MaxNameLen == 2
PathDelimiter == "/"
Chars == {"a", "b", "g", PathDelimiter}
Names == UNION {[1 .. k -> Chars] : k \in 0 .. MaxNameLen}

InitialNames == [v \in ViewIds |-> IF v = "va" THEN <<"a">> ELSE <<"b">>]
InitialGroup == [views |-> [n \in {<<"a">>, <<"b">>} |->
                             IF n = <<"a">> THEN "va" ELSE "vb"],
                 groups |-> {<<"g">>}]

\* new_name.find(delimiter) != npos
findDelimiter(name) == \E i \in 1 .. Len(name) : name[i] = PathDelimiter

hasView(P, name) == name \in DOMAIN P.views

hasGroup(P, name) == name \in P.groups

detachView(P, name) ==
  [P EXCEPT !.views = [n \in (DOMAIN P.views) \ {name} |-> P.views[n]]]

attachView(P, name, v) ==
  IF hasView(P, name) THEN P
  ELSE [P EXCEPT !.views = [n \in (DOMAIN P.views) \cup {name} |->
                             IF n = name THEN v ELSE P.views[n]]]

\* rename() that does not look at the parent's child Groups
renameNoGroupCheck(T, v, new_name) ==
  IF new_name = T.m_name[v] THEN [T EXCEPT !.ret = TRUE]
  ELSE IF new_name = <<>> THEN [T EXCEPT !.ret = FALSE]
  ELSE IF findDelimiter(new_name) THEN [T EXCEPT !.ret = FALSE]
  ELSE IF hasView(T.parent, new_name) THEN [T EXCEPT !.ret = FALSE]
  ELSE [m_name |-> [T.m_name EXCEPT ![v] = new_name],
        parent |-> attachView(detachView(T.parent, T.m_name[v]), new_name, v),
        ret |-> TRUE]

\* rename() that leaves the View under its old name in the parent as well
renameKeepsOldName(T, v, new_name) ==
  IF new_name = T.m_name[v] THEN [T EXCEPT !.ret = TRUE]
  ELSE IF new_name = <<>> THEN [T EXCEPT !.ret = FALSE]
  ELSE IF findDelimiter(new_name) THEN [T EXCEPT !.ret = FALSE]
  ELSE IF hasGroup(T.parent, new_name) \/ hasView(T.parent, new_name)
  THEN [T EXCEPT !.ret = FALSE]
  ELSE [m_name |-> [T.m_name EXCEPT ![v] = new_name],
        parent |-> attachView(T.parent, new_name, v),
        ret |-> TRUE]

\* T holds the names of the Views and their parent; ret is the value returned
rename(T, v, new_name) ==
  IF new_name = T.m_name[v] THEN [T EXCEPT !.ret = TRUE]
  ELSE IF new_name = <<>> THEN [T EXCEPT !.ret = FALSE]
  ELSE IF findDelimiter(new_name) THEN [T EXCEPT !.ret = FALSE]
  ELSE IF hasGroup(T.parent, new_name) \/ hasView(T.parent, new_name)
  THEN [T EXCEPT !.ret = FALSE]
  ELSE [m_name |-> [T.m_name EXCEPT ![v] = new_name],
        parent |-> attachView(detachView(T.parent, T.m_name[v]), new_name, v),
        ret |-> TRUE]

(***************************************************************************)
(* ModularInt (build without MODINT_BRANCHLESS and MODINT_STRAIGHTFORWARD).*)
(* m_val and the modulus are ints of 32 bits.  An operator gives           *)
(* [m_val, sz, aborted]; a signed overflow is undefined behaviour, taken   *)
(* here as either the end of the process or the wrapped value, as chosen   *)
(* by wraps.                                                               *)
(***************************************************************************)
INT_MIN == (-INT_MAX) - 1

NoModularInt == [m_val |-> 0, sz |-> 0, aborted |-> FALSE]

addOverflows(x, y) ==
  \/ y > 0 /\ x > INT_MAX - y
  \/ y < 0 /\ x < INT_MIN - y

\* x + y in 32 bits, two's complement
wrapAdd(x, y) ==
  IF y > 0 /\ x > INT_MAX - y THEN (x - INT_MAX - 1) + (y - INT_MAX - 1)
  ELSE IF y < 0 /\ x < INT_MIN - y THEN (x + INT_MAX + 1) + (y + INT_MAX + 1)
  ELSE x + y

\* -y overflows for INT_MIN only, and wraps to INT_MIN
subOverflows(x, y) ==
  IF y = INT_MIN THEN x >= 0 ELSE addOverflows(x, -y)

wrapSub(x, y) ==
  IF y = INT_MIN THEN wrapAdd(wrapAdd(x, INT_MAX), 1) ELSE wrapAdd(x, -y)

\* x * y in 32 bits for 0 <= x and 0 <= y, from 16-bit halves: no partial
\* product leaves the range of int
wrapMulUp(x, y) ==
  LET xh == x \div TwoTo16
      xl == x % TwoTo16
      yh == y \div TwoTo16
      yl == y % TwoTo16
      p1 == (xl \div 256) * yl
      p2 == (xl % 256) * yl
      low == (p1 % 256) * 256 + p2
      lo == low % TwoTo16
      carry == (low \div TwoTo16) + (p1 \div 256)
      hi == (((xh * yl) % TwoTo16) + ((xl * yh) % TwoTo16) + carry) % TwoTo16
  IN IF hi >= TwoTo16 \div 2 THEN (hi - TwoTo16) * TwoTo16 + lo
     ELSE hi * TwoTo16 + lo

wrapMul(x, y) ==
  IF x = INT_MIN THEN (IF y % 2 = 0 THEN 0 ELSE INT_MIN)
  ELSE IF y = INT_MIN THEN (IF x % 2 = 0 THEN 0 ELSE INT_MIN)
  ELSE LET a == IF x < 0 THEN -x ELSE x
           b == IF y < 0 THEN -y ELSE y
           r == wrapMulUp(a, b)
       IN IF (x < 0) = (y < 0) THEN r ELSE wrapSub(0, r)

\* the largest a with a * b <= 2^31, for b >= 2
MaxNegFactor(b) == (INT_MAX \div b) + (IF INT_MAX % b = b - 1 THEN 1 ELSE 0)

mulOverflows(x, y) ==
  IF x = 0 \/ y = 0 \/ x = 1 \/ y = 1 THEN FALSE
  ELSE IF x = INT_MIN \/ y = INT_MIN THEN TRUE
  ELSE LET a == IF x < 0 THEN -x ELSE x
           b == IF y < 0 THEN -y ELSE y
       IN IF (x < 0) = (y < 0) THEN a > INT_MAX \div b
          ELSE b >= 2 /\ a > MaxNegFactor(b)

\* what m_val may hold when a loop of normalize() has overflowed
Indeterminate == {INT_MIN, -1, 0, INT_MAX}

\* while(m_val >= sz) m_val -= sz;  while(m_val < 0) m_val += sz;
\* with sz < 0 one of the loops runs until m_val overflows
normalize(m, wraps, junk) ==
  IF m.sz > 0 THEN [m EXCEPT !.m_val = m.m_val % m.sz]
  ELSE IF wraps THEN [m EXCEPT !.m_val = junk]
  ELSE [m EXCEPT !.aborted = TRUE]

ModularInt(val, modulusVal, wraps, junk) ==
  normalize([m_val |-> val, sz |-> modulusVal, aborted |-> FALSE], wraps, junk)

add(m, val, wraps, junk) ==
  IF addOverflows(m.m_val, val) /\ ~wraps THEN [m EXCEPT !.aborted = TRUE]
  ELSE normalize([m EXCEPT !.m_val = wrapAdd(m.m_val, val)], wraps, junk)

subtract(m, val, wraps, junk) ==
  IF subOverflows(m.m_val, val) /\ ~wraps THEN [m EXCEPT !.aborted = TRUE]
  ELSE normalize([m EXCEPT !.m_val = wrapSub(m.m_val, val)], wraps, junk)

multiply(m, val, wraps, junk) ==
  IF mulOverflows(m.m_val, val) /\ ~wraps THEN [m EXCEPT !.aborted = TRUE]
  ELSE normalize([m EXCEPT !.m_val = wrapMul(m.m_val, val)], wraps, junk)

\* operator+, operator- and operator*: the operation on a copy
plus(m, n, wraps, junk) == add(normalize(m, wraps, junk), n, wraps, junk)

minus(m, n, wraps, junk) == subtract(normalize(m, wraps, junk), n, wraps, junk)

times(m, n, wraps, junk) == multiply(normalize(m, wraps, junk), n, wraps, junk)

(***************************************************************************)
(* Array.  M holds the Array objects, the blocks of the heap that are in   *)
(* use and what became of the external buffer.  e says how the build and   *)
(* the machine behave: e.checked, the asserts are compiled in; e.crash, an *)
(* access through a bad pointer ends the process.                          *)
(***************************************************************************)
DEFAULT_RESIZE_RATIO == 2
MIN_DEFAULT_CAPACITY == 32
MaxBlocks == 3

ArrayIds == {"a", "b"}
ExtBuf == <<"ext", 1>>
Envs == [checked : BOOLEAN, crash : BOOLEAN]

\* an object that is not constructed
NoArray == [exists |-> FALSE, m_data |-> NullPtr, m_num_elements |-> 0,
            m_capacity |-> 0, m_resize_ratio |-> 0, m_is_external |-> FALSE,
            m_allocator_id |-> "none"]

Abort(M) == [M EXCEPT !.aborted = TRUE]

\* assert(cond)
Asserted(M, cond, e) == IF e.checked /\ ~cond THEN Abort(M) ELSE M

FreeBlocks(M) == (1 .. MaxBlocks) \ M.heap

\* axom::reallocate(m_data, n, id): a null pointer gets a new block, a block
\* of the heap is resized; the external buffer is no block of the heap, and
\* reallocating it is undefined
axomReallocate(M, x, e) ==
  LET p == M.arrays[x].m_data
  IN IF p # NullPtr /\ p # ExtBuf THEN M
     ELSE IF p = ExtBuf /\ e.crash THEN Abort(M)
     ELSE IF FreeBlocks(M) = {} THEN [M EXCEPT !.full = TRUE]
     ELSE LET k == CHOOSE i \in FreeBlocks(M) : \A j \in FreeBlocks(M) : i <= j
          IN [M EXCEPT !.arrays[x].m_data = <<"heap", k>>,
                       !.heap = @ \cup {k},
                       !.external = IF p = ExtBuf THEN "reallocated" ELSE @]

axomDeallocate(M, p) ==
  IF p = ExtBuf THEN [M EXCEPT !.external = "freed"]
  ELSE [M EXCEPT !.heap = @ \ {p[2]}]

updateNumElements(M, x, new_num_elements, e) ==
  IF M.aborted THEN M
  ELSE LET M1 == Asserted(M, /\ new_num_elements >= 0
                             /\ new_num_elements <= M.arrays[x].m_capacity, e)
       IN IF M1.aborted THEN M1
          ELSE [M1 EXCEPT !.arrays[x].m_num_elements = new_num_elements]

setCapacity(M, x, new_capacity, e) ==
  IF M.aborted THEN M
  ELSE LET A == M.arrays[x]
       IN IF A.m_is_external /\ new_capacity <= A.m_capacity THEN M
          ELSE IF A.m_is_external THEN Abort(M)
          ELSE LET M1 == IF new_capacity < A.m_num_elements
                         THEN updateNumElements(M, x, new_capacity, e)
                         ELSE M
                   M2 == IF M1.aborted THEN M1 ELSE axomReallocate(M1, x, e)
               IN IF M2.aborted \/ M2.full THEN M2
                  ELSE [M2 EXCEPT !.arrays[x].m_capacity = new_capacity]

dynamicRealloc(M, x, new_num_elements, e) ==
  IF M.aborted THEN M
  ELSE LET A == M.arrays[x]
       IN IF A.m_is_external THEN Abort(M)
          ELSE IF A.m_resize_ratio < 1 THEN Abort(M)
          ELSE LET M1 == axomReallocate(M, x, e)
               IN IF M1.aborted \/ M1.full THEN M1
                  ELSE [M1 EXCEPT !.arrays[x].m_capacity =
                                     new_num_elements * A.m_resize_ratio]

initialize(M, x, num_elements, capacity, e) ==
  LET M1 == [M EXCEPT !.arrays[x].m_num_elements = num_elements]
      c1 == IF capacity < 0 \/ num_elements > capacity THEN 0 ELSE capacity
      c2 == IF c1 = 0
            THEN (IF num_elements > MIN_DEFAULT_CAPACITY THEN num_elements
                  ELSE MIN_DEFAULT_CAPACITY)
            ELSE c1
  IN setCapacity(M1, x, c2, e)

\* the elements from pos on are moved up by n
reserveForInsert(M, x, n, pos, e) ==
  IF n = 0 THEN M
  ELSE LET new_size == M.arrays[x].m_num_elements + n
           M1 == IF new_size > M.arrays[x].m_capacity
                 THEN dynamicRealloc(M, x, new_size, e)
                 ELSE M
       IN IF M1.full THEN M1 ELSE updateNumElements(M1, x, new_size, e)

\* Array()
ctorDefault(M, x) ==
  [M EXCEPT !.arrays[x] =
     [exists |-> TRUE, m_data |-> NullPtr, m_num_elements |-> 0,
      m_capacity |-> 0, m_resize_ratio |-> DEFAULT_RESIZE_RATIO,
      m_is_external |-> FALSE, m_allocator_id |-> "default"]]

\* Array(num_elements, capacity, allocator_id)
ctorSized(M, x, num_elements, capacity, e) ==
  initialize(ctorDefault(M, x), x, num_elements, capacity, e)

\* Array(data, num_elements, capacity)
ctorExternal(M, x, num_elements, capacity) ==
  [M EXCEPT !.arrays[x] =
     [exists |-> TRUE, m_data |-> ExtBuf, m_num_elements |-> num_elements,
      m_capacity |-> IF capacity < num_elements THEN num_elements ELSE capacity,
      m_resize_ratio |-> 0, m_is_external |-> TRUE,
      m_allocator_id |-> "invalid"]]

\* axom::copy(m_data, other.data(), n): reads n elements through other's pointer
axomCopy(M, x, y, e) ==
  IF M.aborted \/ M.full THEN M
  ELSE IF M.arrays[y].m_data = NullPtr /\ M.arrays[x].m_num_elements > 0 /\ e.crash
  THEN Abort(M)
  ELSE M

\* Array(const Array& other, allocator_id)
ctorCopy(M, x, y, e) ==
  axomCopy(initialize(ctorDefault(M, x), x, M.arrays[y].m_num_elements,
                      M.arrays[y].m_capacity, e), x, y, e)

\* Array(Array&& other)
ctorMove(M, x, y) ==
  LET other == M.arrays[y]
  IN [M EXCEPT !.arrays[x] = other,
               !.arrays[y].m_data = NullPtr,
               !.arrays[y].m_capacity = 0,
               !.arrays[y].m_resize_ratio = DEFAULT_RESIZE_RATIO,
               !.arrays[y].m_is_external = FALSE,
               !.arrays[y].m_allocator_id = "invalid"]

\* operator=(const Array& other)
copyAssign(M, x, y, e) ==
  IF x = y THEN M
  ELSE LET other == M.arrays[y]
           M1 == [M EXCEPT !.arrays[x].m_resize_ratio = other.m_resize_ratio,
                           !.arrays[x].m_is_external = FALSE]
       IN axomCopy(initialize(M1, x, other.m_num_elements, other.m_capacity, e),
                   x, y, e)

\* operator=(Array&& other)
moveAssign(M, x, y) ==
  IF x = y THEN M
  ELSE LET A == M.arrays[x]
           other == M.arrays[y]
           M1 == IF A.m_data # NullPtr /\ ~A.m_is_external
                 THEN axomDeallocate(M, A.m_data)
                 ELSE M
       IN [M1 EXCEPT !.arrays[x] = other,
                     !.arrays[y].m_data = NullPtr,
                     !.arrays[y].m_num_elements = 0,
                     !.arrays[y].m_capacity = 0,
                     !.arrays[y].m_resize_ratio = DEFAULT_RESIZE_RATIO,
                     !.arrays[y].m_is_external = FALSE,
                     !.arrays[y].m_allocator_id = "invalid"]

\* ~Array(): the object is gone afterwards
dtor(M, x) ==
  LET A == M.arrays[x]
      M1 == IF A.m_data # NullPtr /\ ~A.m_is_external
            THEN axomDeallocate(M, A.m_data)
            ELSE M
  IN [M1 EXCEPT !.arrays[x] = NoArray]

\* insert(pos, n, value); insert(pos, value), emplace and push_back have n = 1
insert(M, x, pos, n, e) == reserveForInsert(M, x, n, pos, e)

\* erase(pos): the elements after pos are moved down through m_data
erase(M, x, pos, e) ==
  IF M.arrays[x].m_data = NullPtr /\ e.crash THEN Abort(M)
  ELSE updateNumElements(M, x, M.arrays[x].m_num_elements - 1, e)

clear(M, x, e) == updateNumElements(M, x, 0, e)

resize(M, x, new_num_elements, e) ==
  LET M1 == IF new_num_elements > M.arrays[x].m_capacity
            THEN dynamicRealloc(M, x, new_num_elements, e)
            ELSE M
  IN IF M1.full THEN M1 ELSE updateNumElements(M1, x, new_num_elements, e)

reserve(M, x, capacity, e) ==
  IF capacity > M.arrays[x].m_capacity THEN setCapacity(M, x, capacity, e) ELSE M

shrink(M, x, e) == setCapacity(M, x, M.arrays[x].m_num_elements, e)

\* the allocator ids are not exchanged
swap(M, x, y) ==
  LET A == M.arrays[x]
      B == M.arrays[y]
  IN [M EXCEPT !.arrays[x] = [B EXCEPT !.m_allocator_id = A.m_allocator_id],
               !.arrays[y] = [A EXCEPT !.m_allocator_id = B.m_allocator_id]]

(***************************************************************************)
(* The state machine: a client calls one operation at a time.              *)
(***************************************************************************)
\* element counts tried: up to MaxElems on the single View, up to
\* MaxSharedElems where two Views share Buffers
MaxCount == IF scenario = "single" THEN MaxElems ELSE MaxSharedElems
Counts == (-1) .. MaxCount
Offsets == IF scenario = "single" THEN 0 .. MaxOffset ELSE {0}
Strides == IF scenario = "single" THEN 1 .. MaxStride ELSE {1}
ActiveViews == IF scenario = "single" THEN {"va"} ELSE ViewIds
\* Views interact only through Buffers: the external-pointer and inline-value
\* calls are exercised on the single View.
InlineViews == IF scenario = "single" THEN {"va"} ELSE {}
ActiveTypes == IF scenario = "single" THEN TypeIds ELSE {"INT32_ID"}
TypeInputs == ActiveTypes \cup {NO_TYPE_ID}
DtypeInputs ==
  {EmptyDtype} \cup
  {[type |-> t, num |-> n, offset |-> o * bytesPerElem(t),
    stride |-> s * bytesPerElem(t)] :
     t \in ActiveTypes, n \in 0 .. MaxCount, o \in Offsets, s \in Strides}
Garbage == {"crash"} \cup TypeInputs
Values == {7}
NoView == "none"
NoOp == [op |-> "none", v |-> NoView, arg |-> 0, pre |-> "none", buf |-> NoBuf]

Cur == [views |-> views, bufs |-> bufs, full |-> FALSE, aborted |-> FALSE]

Init ==
  /\ views = [v \in ViewIds |-> NewView]
  /\ bufs = [b \in BufIds |-> NoBuffer]
  /\ last = NoOp
  /\ aborted = FALSE
  /\ scenario \in {"shared", "single"}
  /\ m_name = InitialNames
  /\ parent = InitialGroup
  /\ data = [b \in BufIds |-> <<>>]
  /\ modint = NoModularInt
  /\ arrays = [x \in ArrayIds |-> NoArray]
  /\ memory = [heap |-> {}, external |-> "intact"]
  /\ attributes = {}
  /\ m_attr_values = [v \in ViewIds |-> NoAttrValues]

\* One call by the client, with result R.  last names the call (with the state
\* tag and the Buffer the View had before it) when the client observes it; an
\* observed call is followed by Resume.
Done(R, op, v, arg) ==
  /\ ~aborted
  /\ last = NoOp
  /\ ~R.full
  /\ views' = R.views
  /\ bufs' = R.bufs
  /\ aborted' = R.aborted
  /\ last' \in {NoOp, [op |-> op, v |-> v, arg |-> arg,
                       pre |-> IF v = NoView THEN "none" ELSE views[v].state,
                       buf |-> IF v = NoView THEN NoBuf ELSE views[v].buf]}
  /\ UNCHANGED <<scenario, m_name, parent, apart>>

Resume ==
  /\ last # NoOp
  /\ last' = NoOp
  /\ UNCHANGED <<views, bufs, aborted, scenario, m_name, parent, apart>>

CreateBuffer == Done(createBuffer(Cur), "createBuffer", NoView, 0)

DestroyBuffer ==
  \E b \in BufIds :
    /\ bufs[b].exists
    /\ Done(IF bufs[b].views = {} THEN destroyBuffer(Cur, b) ELSE Cur,
            "destroyBuffer", NoView, b)

BufAllocate ==
  \E b \in BufIds, t \in TypeInputs, n \in Counts :
    bufs[b].exists /\ Done(BufferAllocate(Cur, b, t, n), "Buffer::allocate", NoView, b)

BufReallocate ==
  \E b \in BufIds, n \in Counts :
    bufs[b].exists /\ Done(BufferReallocate(Cur, b, n), "Buffer::reallocate", NoView, b)

BufDeallocate ==
  \E b \in BufIds :
    bufs[b].exists /\ Done(BufferDeallocate(Cur, b), "Buffer::deallocate", NoView, b)

Allocate == \E v \in ActiveViews : Done(allocate(Cur, v), "allocate", v, 0)

AllocateTN ==
  \E v \in ActiveViews, t \in TypeInputs, n \in Counts :
    Done(allocateTN(Cur, v, t, n), "allocateTN", v, 0)

AllocateDtype ==
  \E v \in ActiveViews, dt \in DtypeInputs :
    Done(allocateDtype(Cur, v, dt), "allocateDtype", v, 0)

Reallocate ==
  \E v \in ActiveViews, n \in Counts : Done(reallocate(Cur, v, n), "reallocate", v, 0)

ReallocateDtype ==
  \E v \in ActiveViews, dt \in DtypeInputs :
    Done(reallocateDtype(Cur, v, dt), "reallocateDtype", v, 0)

Deallocate == \E v \in ActiveViews : Done(deallocate(Cur, v), "deallocate", v, 0)

AttachBuffer ==
  \E v \in ActiveViews, b \in BufIds \cup {NoBuf} :
    /\ b # NoBuf => bufs[b].exists
    /\ Done(attachBuffer(Cur, v, b), "attachBuffer", v, b)

Apply == \E v \in ActiveViews : Done(apply(Cur, v), "apply", v, 0)

ApplyNOS ==
  \E v \in ActiveViews, n \in Counts, o \in Offsets, s \in Strides :
    \E g \in IF views[v].type = NO_TYPE_ID /\ views[v].buf = NoBuf
              THEN Garbage ELSE {NO_TYPE_ID} :
    Done(applyNOS(Cur, v, n, o, s, g), "applyNOS", v, 0)

ApplyTNOS ==
  \E v \in ActiveViews, t \in TypeInputs, n \in Counts, o \in Offsets, s \in Strides :
    Done(applyTNOS(Cur, v, t, n, o, s), "applyTNOS", v, 0)

ApplyDtype ==
  \E v \in ActiveViews, dt \in DtypeInputs :
    Done(applyDtype(Cur, v, dt), "applyDtype", v, 0)

SetExternalDataPtr ==
  \E v \in InlineViews, p \in ExtPtrs \cup {NullPtr} :
    Done(setExternalDataPtr(Cur, v, p), "setExternalDataPtr", v, p[2])

SetScalar ==
  \E v \in InlineViews, val \in Values : Done(setScalar(Cur, v, val), "setScalar", v, 0)

SetString ==
  \E v \in InlineViews, val \in Values : Done(setString(Cur, v, val), "setString", v, 0)

\* the tree is saved and loaded into a new DataStore, which the client uses
\* from then on
SaveLoad == Done(load(save(Cur)), "load", NoView, 0)

Next ==
  \/ CreateBuffer
  \/ DestroyBuffer
  \/ BufAllocate
  \/ BufReallocate
  \/ BufDeallocate
  \/ Allocate
  \/ AllocateTN
  \/ AllocateDtype
  \/ Reallocate
  \/ ReallocateDtype
  \/ Deallocate
  \/ AttachBuffer
  \/ Apply
  \/ ApplyTNOS
  \/ ApplyDtype
  \/ ApplyNOS
  \/ SetExternalDataPtr
  \/ SetScalar
  \/ SetString
  \/ Resume

Spec == Init /\ [][Next]_vars

NextIO == Next \/ SaveLoad

(***************************************************************************)
(* Destruction of Views: the client also destroys Views.                   *)
(***************************************************************************)
DestroyView ==
  \E v \in ActiveViews : Done(destroyView(Cur, v), "destroyView", v, 0)

NextDestroy == Next \/ DestroyView

SpecDestroy == Init /\ [][NextDestroy]_vars

(***************************************************************************)
(* The elements of Buffers: the client allocates and reallocates Buffers   *)
(* that have no View and reads and writes their elements.                  *)
(***************************************************************************)
MaxDataElems == 3
DataValues == {5, 10}
DataCounts == 0 .. MaxDataElems
NewMemory == [1 .. MaxDataElems + 1 -> DataValues]

BufferStep(S, d, rec) ==
  /\ ~aborted
  /\ last = NoOp
  /\ bufs' = S.bufs
  /\ data' = d
  /\ last' = rec
  /\ UNCHANGED <<views, aborted, scenario, m_name, parent, modint, arrays, memory,
               attributes, m_attr_values>>

DataAllocate ==
  \E b \in BufIds, t \in TypeIds, n \in DataCounts, init \in NewMemory :
    /\ bufs[b].exists
    /\ ~bufs[b].allocated
    /\ BufferStep(BufferAllocate(Cur, b, t, n),
                  [data EXCEPT ![b] = allocateData(n, init)],
                  [op |-> "Buffer::allocate", b |-> b, num |-> n])

DataWrite ==
  \E b \in BufIds, i \in 1 .. MaxDataElems, val \in DataValues :
    /\ bufs[b].allocated
    /\ i <= Len(data[b])
    /\ BufferStep(Cur, [data EXCEPT ![b][i] = val],
                  [op |-> "write", b |-> b, num |-> i])

DataReallocate ==
  \E b \in BufIds, n \in DataCounts, init \in NewMemory :
    /\ bufs[b].allocated
    /\ BufferStep(BufferReallocate(Cur, b, n),
                  [data EXCEPT ![b] = reallocateData(data[b], n, init)],
                  [op |-> "Buffer::reallocate", b |-> b, num |-> n])

NextBuffer == CreateBuffer \/ DataAllocate \/ DataWrite \/ DataReallocate \/ Resume

SpecBuffer == Init /\ [][NextBuffer]_vars

(***************************************************************************)
(* ModularInt: the client makes one ModularInt and works on it.            *)
(***************************************************************************)
MaxModulus == 10
IntInputs == {INT_MIN, -MaxModulus - 3, -MaxModulus, -1, 0, 1, 2, 3, 4, 5, 6,
              MaxModulus, MaxModulus + 3, 2 * MaxModulus, INT_MAX}
ModulusInputs == {-MaxModulus \div 2, 1, 3, MaxModulus}

\* the object becomes m; last holds the call, the object before it and, for a
\* binary operator, the value of its result
ModIntStep(m, op, n, ret) ==
  /\ ~aborted
  /\ last = NoOp
  /\ modint' = IF m.aborted THEN modint ELSE m
  /\ aborted' = (m.aborted \/ ret.aborted)
  /\ last' = [op |-> op, n |-> n, pre |-> modint, ret |-> ret.m_val]
  /\ UNCHANGED <<views, bufs, scenario, m_name, parent, data, arrays, memory,
               attributes, m_attr_values>>

Construct ==
  \E val \in IntInputs, modulusVal \in ModulusInputs, wraps \in BOOLEAN,
     junk \in Indeterminate :
    /\ modint = NoModularInt
    /\ ModIntStep(ModularInt(val, modulusVal, wraps, junk), "ModularInt", val,
                  NoModularInt)

Increment ==
  \E wraps \in BOOLEAN, junk \in Indeterminate :
    /\ modint # NoModularInt
    /\ ModIntStep(add(modint, 1, wraps, junk), "++", 1, NoModularInt)

Decrement ==
  \E wraps \in BOOLEAN, junk \in Indeterminate :
    /\ modint # NoModularInt
    /\ ModIntStep(subtract(modint, 1, wraps, junk), "--", 1, NoModularInt)

AddAssign ==
  \E n \in IntInputs, wraps \in BOOLEAN, junk \in Indeterminate :
    /\ modint # NoModularInt
    /\ ModIntStep(add(modint, n, wraps, junk), "+=", n, NoModularInt)

SubAssign ==
  \E n \in IntInputs, wraps \in BOOLEAN, junk \in Indeterminate :
    /\ modint # NoModularInt
    /\ ModIntStep(subtract(modint, n, wraps, junk), "-=", n, NoModularInt)

MulAssign ==
  \E n \in IntInputs, wraps \in BOOLEAN, junk \in Indeterminate :
    /\ modint # NoModularInt
    /\ ModIntStep(multiply(modint, n, wraps, junk), "*=", n, NoModularInt)

Plus ==
  \E n \in IntInputs, wraps \in BOOLEAN, junk \in Indeterminate :
    /\ modint # NoModularInt
    /\ ModIntStep(modint, "+", n, plus(modint, n, wraps, junk))

Minus ==
  \E n \in IntInputs, wraps \in BOOLEAN, junk \in Indeterminate :
    /\ modint # NoModularInt
    /\ ModIntStep(modint, "-", n, minus(modint, n, wraps, junk))

Times ==
  \E n \in IntInputs, wraps \in BOOLEAN, junk \in Indeterminate :
    /\ modint # NoModularInt
    /\ ModIntStep(modint, "*", n, times(modint, n, wraps, junk))

NextModularInt ==
  \/ Construct
  \/ Increment
  \/ Decrement
  \/ AddAssign
  \/ SubAssign
  \/ MulAssign
  \/ Plus
  \/ Minus
  \/ Times
  \/ Resume

SpecModularInt == Init /\ [][NextModularInt]_vars

(***************************************************************************)
(* Arrays: the client works with two Array objects, one external buffer    *)
(* and the heap.                                                           *)
(***************************************************************************)
MaxArrayElems == 1
ArraySizes == 0 .. MaxArrayElems
ArrayCapacities == 0 .. MaxArrayElems + 1

CurA == [arrays |-> arrays, heap |-> memory.heap, external |-> memory.external,
         aborted |-> FALSE, full |-> FALSE]

ArrayStep(R, op, x, y) ==
  /\ ~aborted
  /\ last = NoOp
  /\ ~R.full
  /\ arrays' = R.arrays
  /\ memory' = [heap |-> R.heap, external |-> R.external]
  /\ aborted' = R.aborted
  /\ last' = [op |-> op, x |-> x, y |-> y]
  /\ UNCHANGED <<views, bufs, scenario, m_name, parent, data, modint,
               attributes, m_attr_values>>

ArrayDefault ==
  \E x \in ArrayIds :
    ~arrays[x].exists /\ ArrayStep(ctorDefault(CurA, x), "Array()", x, x)

ArraySized ==
  \E x \in ArrayIds, n \in ArraySizes, c \in ArrayCapacities, e \in Envs :
    ~arrays[x].exists /\ ArrayStep(ctorSized(CurA, x, n, c, e), "Array(n, c)", x, x)

\* the buffer is wrapped by one Array made from it at a time
ArrayExternal ==
  \E x \in ArrayIds, n \in 1 .. MaxArrayElems, c \in ArrayCapacities :
    /\ ~arrays[x].exists
    /\ memory.external = "intact"
    /\ \A y \in ArrayIds : arrays[y].m_data # ExtBuf
    /\ ArrayStep(ctorExternal(CurA, x, n, c), "Array(data, n, c)", x, x)

ArrayCopy ==
  \E x, y \in ArrayIds, e \in Envs :
    /\ ~arrays[x].exists /\ arrays[y].exists
    /\ ArrayStep(ctorCopy(CurA, x, y, e), "Array(const Array&)", x, y)

ArrayMove ==
  \E x, y \in ArrayIds :
    /\ ~arrays[x].exists /\ arrays[y].exists
    /\ ArrayStep(ctorMove(CurA, x, y), "Array(Array&&)", x, y)

ArrayCopyAssign ==
  \E x, y \in ArrayIds, e \in Envs :
    /\ arrays[x].exists /\ arrays[y].exists
    /\ ArrayStep(copyAssign(CurA, x, y, e), "operator=(const Array&)", x, y)

ArrayMoveAssign ==
  \E x, y \in ArrayIds :
    /\ arrays[x].exists /\ arrays[y].exists
    /\ ArrayStep(moveAssign(CurA, x, y), "operator=(Array&&)", x, y)

ArrayDestroy ==
  \E x \in ArrayIds :
    arrays[x].exists /\ ArrayStep(dtor(CurA, x), "~Array", x, x)

PushBack ==
  \E x \in ArrayIds, e \in Envs :
    /\ arrays[x].exists
    /\ arrays[x].m_num_elements <= MaxArrayElems
    /\ ArrayStep(insert(CurA, x, arrays[x].m_num_elements, 1, e), "push_back", x, x)

Insert ==
  \E x \in ArrayIds, pos \in ArraySizes, n \in 0 .. MaxArrayElems, e \in Envs :
    /\ arrays[x].exists
    /\ pos <= arrays[x].m_num_elements
    /\ arrays[x].m_num_elements + n <= MaxArrayElems + 1
    /\ ArrayStep(insert(CurA, x, pos, n, e), "insert", x, x)

Erase ==
  \E x \in ArrayIds, pos \in ArraySizes, e \in Envs :
    /\ arrays[x].exists
    /\ pos < arrays[x].m_num_elements
    /\ ArrayStep(erase(CurA, x, pos, e), "erase", x, x)

Clear ==
  \E x \in ArrayIds, e \in Envs :
    arrays[x].exists /\ ArrayStep(clear(CurA, x, e), "clear", x, x)

Resize ==
  \E x \in ArrayIds, n \in 0 .. MaxArrayElems + 1, e \in Envs :
    arrays[x].exists /\ ArrayStep(resize(CurA, x, n, e), "resize", x, x)

Reserve ==
  \E x \in ArrayIds, c \in ArrayCapacities, e \in Envs :
    arrays[x].exists /\ ArrayStep(reserve(CurA, x, c, e), "reserve", x, x)

Shrink ==
  \E x \in ArrayIds, e \in Envs :
    arrays[x].exists /\ ArrayStep(shrink(CurA, x, e), "shrink", x, x)

Swap ==
  \E x, y \in ArrayIds :
    /\ arrays[x].exists /\ arrays[y].exists /\ x # y
    /\ ArrayStep(swap(CurA, x, y), "swap", x, y)

NextArray ==
  \/ ArrayDefault
  \/ ArraySized
  \/ ArrayExternal
  \/ ArrayCopy
  \/ ArrayMove
  \/ ArrayCopyAssign
  \/ ArrayMoveAssign
  \/ ArrayDestroy
  \/ PushBack
  \/ Insert
  \/ Erase
  \/ Clear
  \/ Resize
  \/ Reserve
  \/ Shrink
  \/ Swap
  \/ Resume

SpecArray == Init /\ [][NextArray]_vars

(***************************************************************************)
(* Renaming: the client renames the Views of one Group.                    *)
(***************************************************************************)
Rename ==
  \E v \in ViewIds, new_name \in Names :
    LET R == rename([m_name |-> m_name, parent |-> parent, ret |-> TRUE],
                    v, new_name)
    IN /\ ~aborted
       /\ last = NoOp
       /\ m_name' = R.m_name
       /\ parent' = R.parent
       /\ last' = [op |-> "rename", v |-> v, new_name |-> new_name,
                   ret |-> R.ret]
       /\ UNCHANGED <<views, bufs, aborted, scenario, apart>>

NextRename == Rename \/ Resume

SpecRename == Init /\ [][NextRename]_vars

(***************************************************************************)
(* Offsets and strides: a View of element type t is given a description    *)
(* and getOffset() and getStride() are called on it.  last holds the       *)
(* description as stored and what the two calls return.                    *)
(***************************************************************************)
MaxByteValue == 5
IndexInputs == {0, 1, 2, 3, INT_MAX \div 8, (INT_MAX \div 4) + 1, INT_MAX}
ByteInputs == 0 .. MaxByteValue

\* getOffset() then, unless the process has ended, getStride()
Observed(op, t, num_elems, offset, stride, bytes_offset, bytes_stride, abort_on_error) ==
  LET off == getOffsetOf(t, bytes_offset, abort_on_error)
      str == IF off.aborted
             THEN [ret |-> 0, returned |-> FALSE, error |-> FALSE,
                   aborted |-> TRUE]
             ELSE getStrideOf(t, bytes_stride, abort_on_error)
  IN /\ ~aborted
     /\ last = NoOp
     /\ last' = [op |-> op, v |-> "va", type |-> t, num |-> num_elems,
                 offset |-> offset, stride |-> stride,
                 bytes_offset |-> bytes_offset, bytes_stride |-> bytes_stride,
                 getOffset |-> off, getStride |-> str]
     /\ aborted' = (off.aborted \/ str.aborted)
     /\ UNCHANGED <<views, bufs, scenario, m_name, parent, apart>>

\* apply(num_elems, offset, stride) on a View of type t, then the two calls
ApplyThenGet ==
  \E t \in TypeIds, n \in 0 .. MaxElems, offset \in IndexInputs,
     stride \in IndexInputs, abort_on_error \in BOOLEAN :
    Observed("applyNOS", t, n, offset, stride,
             WideTimes(offset, bytesPerElem(t)),
             WideTimes(stride, bytesPerElem(t)), abort_on_error)

\* apply(dtype) with byte values in the dtype, then the two calls
DescribeThenGet ==
  \E t \in TypeIds, n \in 0 .. MaxElems, offset \in ByteInputs,
     stride \in ByteInputs, abort_on_error \in BOOLEAN :
    Observed("applyDtype", t, n, offset, stride, Wide(offset), Wide(stride),
             abort_on_error)

NextOffsets == ApplyThenGet \/ DescribeThenGet \/ Resume

SpecOffsets == Init /\ [][NextOffsets]_vars

SpecIO == Init /\ [][NextIO]_vars

(***************************************************************************)
(* Allocation through View and through DataView.                           *)
(***************************************************************************)
AllocStep(R, op, v, t, n) ==
  /\ ~aborted
  /\ last = NoOp
  /\ ~R.full
  /\ views' = R.views
  /\ bufs' = R.bufs
  /\ aborted' = R.aborted
  /\ last' = [op |-> op, v |-> v, type |-> t, n |-> n]
  /\ UNCHANGED <<scenario, m_name, parent, apart>>

ViewAllocate ==
  \E v \in ActiveViews :
    AllocStep(allocate(Cur, v), "View::allocate", v, views[v].type, views[v].num)

ViewAllocateTN ==
  \E v \in ActiveViews, t \in TypeInputs, n \in Counts :
    AllocStep(allocateTN(Cur, v, t, n), "View::allocate(type, n)", v, t, n)

DataViewAllocate ==
  \E v \in ActiveViews :
    AllocStep(allocateDataView(Cur, v), "DataView::allocate", v, views[v].type, views[v].num)

DataViewAllocateTN ==
  \E v \in ActiveViews, t \in TypeInputs, n \in Counts :
    AllocStep(allocateTNDataView(Cur, v, t, n), "DataView::allocate(type, n)", v, t, n)

AllocDeallocate ==
  \E v \in ActiveViews :
    AllocStep(deallocate(Cur, v), "deallocate", v, views[v].type, views[v].num)

ViewReallocate ==
  \E v \in ActiveViews, n \in Counts :
    AllocStep(reallocate(Cur, v, n), "View::reallocate(n)", v, views[v].type, n)

ViewReallocateDtype ==
  \E v \in ActiveViews, dt \in DtypeInputs :
    AllocStep(reallocateDtype(Cur, v, dt), "View::reallocate(dtype)", v, dt.type, dt.num)

DataViewReallocateDtype ==
  \E v \in ActiveViews, dt \in DtypeInputs :
    AllocStep(reallocateDtypeDataView(Cur, v, dt), "DataView::reallocate(dtype)", v, dt.type, dt.num)

NextDataView ==
  \/ ViewAllocate
  \/ ViewAllocateTN
  \/ DataViewAllocate
  \/ DataViewAllocateTN
  \/ AllocDeallocate
  \/ ViewReallocate
  \/ ViewReallocateDtype
  \/ DataViewReallocateDtype
  \/ CreateBuffer
  \/ BufAllocate
  \/ AttachBuffer
  \/ Resume

SpecDataView == Init /\ [][NextDataView]_vars

(***************************************************************************)
(* Loading a document whose View node names a Buffer that the document     *)
(* does not hold.                                                          *)
(***************************************************************************)
\* the document of the tree, with the buffer_id of View v replaced by id
corrupted(S, v, id) == [save(S) EXCEPT !.views[v].buffer_id = id]

LoadCorrupted ==
  \E v \in ViewIds, id \in BufIds \cup {MaxBuffers} :
    /\ views[v].state = "BUFFER"
    /\ id \notin exportedIndices(Cur)
    /\ Done(load(corrupted(Cur, v, id)), "loadCorrupted", v, id)

NextImport ==
  \/ CreateBuffer
  \/ BufAllocate
  \/ AttachBuffer
  \/ AllocateTN
  \/ ApplyTNOS
  \/ SaveLoad
  \/ LoadCorrupted
  \/ Resume

SpecImport == Init /\ [][NextImport]_vars

(***************************************************************************)
(* Attributes: Views are given attribute values, and the tree is saved and *)
(* loaded into a DataStore that defines some of the Attributes.            *)
(***************************************************************************)
AttrStep(d, vals, op, skipped) ==
  /\ ~aborted
  /\ last = NoOp
  /\ attributes' = d
  /\ m_attr_values' = vals
  /\ last' = [op |-> op, skipped |-> skipped]
  /\ UNCHANGED <<scenario, m_name, parent, data, modint, arrays, memory>>

CreateAttribute ==
  \E name \in AttrNames \ attributes :
    /\ AttrStep(attributes \cup {name}, m_attr_values, "createAttribute", {})
    /\ UNCHANGED <<views, bufs, aborted>>

SetAttributeString ==
  \E v \in ViewIds, name \in AttrNames, value \in AttrValues :
    /\ AttrStep(attributes,
                [m_attr_values EXCEPT
                   ![v] = setAttributeString(@, attributes, name, value)],
                "setAttributeString", {})
    /\ UNCHANGED <<views, bufs, aborted>>

\* the new DataStore defines the Attributes d
LoadAttributes ==
  \E d \in SUBSET AttrNames :
    LET R == load(save(Cur))
    IN /\ AttrStep(d,
                   [v \in ViewIds |->
                      importAttribute(NoAttrValues, d,
                                      exportAttribute(m_attr_values[v]))],
                   "loadAttributes",
                   UNION {DOMAIN m_attr_values[v] : v \in ViewIds} \ d)
       /\ views' = R.views
       /\ bufs' = R.bufs
       /\ aborted' = R.aborted

NextAttribute ==
  \/ CreateAttribute
  \/ SetAttributeString
  \/ AllocateTN
  \/ LoadAttributes
  \/ Resume

SpecAttribute == Init /\ [][NextAttribute]_vars

(***************************************************************************)
(* Views and Buffers with the calls that attach or detach: allocate,      *)
(* deallocate, attachBuffer, destroyView, save and load, and the copy of a  *)
(* View into a new View.                                                   *)
(***************************************************************************)
CopyView ==
  \E v \in ActiveViews, copy \in ViewIds :
    /\ copy # v
    /\ views[copy].state = "EMPTY"
    /\ ~isDescribed(Cur, copy)
    /\ Done(copyView(Cur, v, copy), "copyView", v, 0)

\* the inline calls on either View
CopySetScalar ==
  \E v \in ViewIds, val \in Values : Done(setScalar(Cur, v, val), "setScalar", v, 0)

CopySetExternalDataPtr ==
  \E v \in ViewIds, p \in ExtPtrs \cup {NullPtr} :
    Done(setExternalDataPtr(Cur, v, p), "setExternalDataPtr", v, p[2])

NextCopy ==
  \/ CreateBuffer
  \/ DestroyBuffer
  \/ BufAllocate
  \/ Allocate
  \/ AllocateTN
  \/ Deallocate
  \/ AttachBuffer
  \/ CopySetScalar
  \/ CopySetExternalDataPtr
  \/ DestroyView
  \/ SaveLoad
  \/ CopyView
  \/ Resume

\* two Views that share Buffers
InitCopy == Init /\ scenario = "shared"

SpecCopy == InitCopy /\ [][NextCopy]_vars

(***************************************************************************)
(* The names of the states: the client brings a View into a state, asks    *)
(* for the name of the state and for the state that a name stands for.     *)
(***************************************************************************)
\* a value of the enumeration that is none of its enumerators
OtherState == "State(5)"
NameInputs ==
  {"EMPTY", "BUFFER", "EXTERNAL", "SCALAR", "STRING", "UNKNOWN", "", "empty",
   "Buffer", "STRING ", "NONE"}

NameStep(op, v, state, name) ==
  /\ ~aborted
  /\ last = NoOp
  /\ last' = [op |-> op, v |-> v, state |-> state, name |-> name,
              id |-> getStateId(name)]
  /\ UNCHANGED <<views, bufs, aborted, scenario, m_name, parent, apart>>

\* getStateId(getStateStringName(m_state)), as export and import do
GetStateStringName ==
  \E v \in ActiveViews :
    NameStep("getStateStringName", v, views[v].state,
             getStateStringName(views[v].state))

GetStateStringNameOther ==
  NameStep("getStateStringName", NoView, OtherState,
           getStateStringName(OtherState))

GetStateId == \E name \in NameInputs : NameStep("getStateId", NoView, "none", name)

NextStateNames ==
  \/ CreateBuffer
  \/ AttachBuffer
  \/ AllocateTN
  \/ SetExternalDataPtr
  \/ SetScalar
  \/ SetString
  \/ GetStateStringName
  \/ GetStateStringNameOther
  \/ GetStateId
  \/ Resume

SpecStateNames == Init /\ [][NextStateNames]_vars

(***************************************************************************)
(* Claims.                                                                 *)
(***************************************************************************)
AllocOps == {"allocate", "allocateTN", "allocateDtype", "reallocate",
             "reallocateDtype", "deallocate"}

Shared(v) ==
  views[v].state = "BUFFER" /\ Cardinality(bufs[views[v].buf].views) > 1

\* C1: every View in state BUFFER with isApplied() true has getTotalBytes() no
\* larger than its Buffer's getTotalBytes(), in every reachable state.
C1_AppliedFitsBuffer ==
  \A v \in ViewIds :
    (views[v].state = "BUFFER" /\ views[v].applied)
      => getTotalBytes(Cur, v) <= BufferGetTotalBytes(Cur, views[v].buf)

\* C2: a call that is rejected as a usage error (allocate(type, n) or
\* allocate(dtype) in state EXTERNAL, SCALAR or STRING or on a shared Buffer;
\* apply(type, ...) or apply(dtype) in state EMPTY, SCALAR or STRING, and
\* apply(n, offset, stride) there on a described View; reallocate in state
\* EXTERNAL, SCALAR or STRING or on a shared Buffer) leaves the View as it was.
C2_RejectedLeavesViewUnchanged ==
  [][\A v \in ViewIds :
       (/\ last'.v = v
        /\ \/ /\ last'.op \in {"allocateTN", "allocateDtype", "reallocate",
                               "reallocateDtype"}
              /\ (views[v].state \in {"EXTERNAL", "SCALAR", "STRING"} \/ Shared(v))
           \/ /\ last'.op \in {"applyTNOS", "applyDtype"}
              /\ views[v].state \in {"EMPTY", "SCALAR", "STRING"}
           \/ /\ last'.op = "applyNOS"
              /\ views[v].state \in {"EMPTY", "SCALAR", "STRING"}
              /\ views[v].type # NO_TYPE_ID)
       => views'[v] = views[v]]_vars

\* C3: while a Buffer has more than one View attached, no allocate, reallocate
\* or deallocate call on one of those Views changes the Buffer's allocation
\* status, element type or element count.
C3_SharedBufferNotReallocated ==
  [][\A v \in ViewIds :
       (last'.v = v /\ last'.op \in AllocOps /\ Shared(v))
       => LET b == views[v].buf
          IN /\ bufs'[b].allocated = bufs[b].allocated
             /\ bufs'[b].type = bufs[b].type
             /\ bufs'[b].num = bufs[b].num]_vars

\* a reallocate(n) call has just been made on a View whose allocated Buffer is
\* shared with the other View, with a different count in its description
C3_Witness ==
  /\ last.op = "reallocate"
  /\ last.v \in ViewIds
  /\ Shared(last.v)
  /\ bufs[views[last.v].buf].allocated
  /\ bufs[views[last.v].buf].num = 1

Nxt == [views |-> views', bufs |-> bufs', full |-> FALSE, aborted |-> FALSE]

Detaches(v) ==
  /\ last'.v = v
  /\ last'.op = "attachBuffer"
  /\ last'.arg = NoBuf
  /\ views[v].state = "BUFFER"

Attaches(v, b) ==
  /\ last'.v = v
  /\ last'.op = "attachBuffer"
  /\ last'.arg = b
  /\ views[v].state = "EMPTY"

\* C4 (as amended): with two Views attached to the same allocated Buffer,
\* attachBuffer(null) on one leaves the Buffer in the DataStore, allocated and
\* attached to the other View; attachBuffer(null) on the last attached View
\* brings the view count to zero and that detach destroys the Buffer.
C4_DetachKeepsSharedDestroysLast ==
  [][\A v \in ViewIds :
       (Detaches(v) /\ bufs[views[v].buf].allocated)
       => LET b == views[v].buf
              others == bufs[b].views \ {v}
          IN IF others # {}
             THEN /\ bufs'[b].exists
                  /\ bufs'[b].allocated
                  /\ bufs'[b].views = others
                  /\ \A w \in others : views'[w].state = "BUFFER" /\ views'[w].buf = b
             ELSE ~bufs'[b].exists]_vars

\* C4 (as claimed): ... attachBuffer(null) on the last attached View brings the
\* view count to zero and the Buffer stays in the DataStore.
C4_Original ==
  [][\A v \in ViewIds :
       (Detaches(v) /\ bufs[views[v].buf].allocated)
       => LET b == views[v].buf
              others == bufs[b].views \ {v}
          IN IF others # {}
             THEN /\ bufs'[b].exists
                  /\ bufs'[b].allocated
                  /\ bufs'[b].views = others
                  /\ \A w \in others : views'[w].state = "BUFFER" /\ views'[w].buf = b
             ELSE bufs'[b].exists /\ bufs'[b].views = {}]_vars

\* one of the two Views of an allocated Buffer has just been detached from it:
\* the Buffer is still allocated and attached to the other View only
C4_Witness ==
  /\ last.op = "attachBuffer" /\ last.arg = NoBuf /\ last.pre = "BUFFER"
  /\ views[last.v].state = "EMPTY"
  /\ \E w \in ViewIds \ {last.v} :
       /\ views[w].state = "BUFFER"
       /\ views[w].buf = last.buf
       /\ bufs[last.buf].allocated
       /\ bufs[last.buf].views = {w}
       /\ views[w].applied

\* C5: attachBuffer(null) on a View in state BUFFER leaves the View in state
\* EMPTY, not applied, with no Buffer and out of the Buffer's attached-view set,
\* and the Buffer is destroyed if and only if no View is attached to it any more.
C5_DetachResult ==
  [][\A v \in ViewIds :
       Detaches(v)
       => LET b == views[v].buf
          IN /\ views'[v].state = "EMPTY"
             /\ ~views'[v].applied
             /\ views'[v].buf = NoBuf
             /\ v \notin bufs'[b].views
             /\ (~bufs'[b].exists) <=> (bufs[b].views \ {v} = {})]_vars

\* the only View of a Buffer has just been detached and the Buffer is gone
C5_Witness ==
  /\ last.op = "attachBuffer" /\ last.arg = NoBuf /\ last.pre = "BUFFER"
  /\ views[last.v].state = "EMPTY"
  /\ ~bufs[last.buf].exists
  /\ \A w \in ViewIds : views[w].state = "EMPTY"

\* C6: no View in state BUFFER references a Buffer that the DataStore has
\* destroyed, and attachBuffer(null) destroys the old Buffer only when no View
\* is attached to it after the detach.
C6_NoDanglingBuffer ==
  /\ [](\A v \in ViewIds :
          views[v].state = "BUFFER"
            => /\ views[v].buf # NoBuf
               /\ bufs[views[v].buf].exists
               /\ v \in bufs[views[v].buf].views)
  /\ [][\A v \in ViewIds :
          (Detaches(v) /\ ~bufs'[views[v].buf].exists)
          => bufs[views[v].buf].views = {v}]_vars

\* a View has just been detached from a Buffer of its own, which is destroyed,
\* while the other View is attached to another Buffer, which is still there
C6_Witness ==
  /\ last.op = "attachBuffer" /\ last.arg = NoBuf /\ last.pre = "BUFFER"
  /\ ~bufs[last.buf].exists
  /\ \E w \in ViewIds \ {last.v} :
       /\ views[w].state = "BUFFER"
       /\ views[w].buf # last.buf
       /\ bufs[views[w].buf].exists
       /\ w \in bufs[views[w].buf].views

\* C7 (as amended): attachBuffer(buf) with a Buffer on a View in state EMPTY
\* moves the View to state BUFFER and adds it to buf's attached-view set; the
\* View is applied afterwards exactly when it is described, buf is allocated
\* and the description's byte extent is at least 0 and at most buf's bytes.
C7_AttachResult ==
  [][\A v \in ViewIds, b \in BufIds :
       Attaches(v, b)
       => /\ views'[v].state = "BUFFER"
          /\ views'[v].buf = b
          /\ bufs'[b].views = bufs[b].views \cup {v}
          /\ views'[v].applied <=>
               (/\ isDescribed(Cur, v)
                /\ bufs[b].allocated
                /\ 0 <= getTotalBytes(Cur, v)
                /\ getTotalBytes(Cur, v) <= BufferGetTotalBytes(Cur, b))]_vars

\* C7 (as claimed): ... the View is applied afterwards exactly when it is
\* described and buf is allocated.
C7_Original ==
  [][\A v \in ViewIds, b \in BufIds :
       Attaches(v, b)
       => /\ views'[v].state = "BUFFER"
          /\ views'[v].buf = b
          /\ bufs'[b].views = bufs[b].views \cup {v}
          /\ views'[v].applied <=> (isDescribed(Cur, v) /\ bufs[b].allocated)]_vars

\* a described EMPTY View has just been attached to an allocated Buffer that
\* holds its description, and is applied
C7_Witness ==
  /\ last.op = "attachBuffer" /\ last.arg # NoBuf /\ last.pre = "EMPTY"
  /\ views[last.v].state = "BUFFER"
  /\ views[last.v].buf = last.arg
  /\ views[last.v].applied
  /\ views[last.v].num = 1
  /\ bufs[last.arg].allocated

\* C8: allocate() on a described View in state EMPTY creates a Buffer, attaches
\* the View to it as its only View, allocates it with the description's type
\* and element count, and leaves the View in state BUFFER, applied and allocated.
C8_AllocateFromEmpty ==
  [][\A v \in ViewIds :
       (last'.v = v /\ last'.op = "allocate" /\ views[v].state = "EMPTY"
        /\ isDescribed(Cur, v))
       => \E b \in BufIds :
            /\ ~bufs[b].exists
            /\ bufs'[b] = [exists |-> TRUE, allocated |-> TRUE,
                           type |-> views[v].type, num |-> views[v].num,
                           views |-> {v}]
            /\ views'[v].state = "BUFFER"
            /\ views'[v].buf = b
            /\ views'[v].applied
            /\ isAllocated(Nxt, v)]_vars

\* C9: allocate() on a View that has no description changes nothing in any
\* state: no Buffer is created, the View is as before, and a View that was
\* EMPTY is still not allocated.
C9_AllocateUndescribedNoOp ==
  [][\A v \in ViewIds :
       (last'.v = v /\ last'.op = "allocate" /\ ~isDescribed(Cur, v))
       => /\ views' = views
          /\ bufs' = bufs
          /\ (views[v].state = "EMPTY" => ~isAllocated(Nxt, v))]_vars

\* allocate() has just been called on an EMPTY View without a description
C9_Witness ==
  /\ last.op = "allocate" /\ last.pre = "EMPTY"
  /\ ~isDescribed(Cur, last.v)
  /\ views[last.v].state = "EMPTY"
  /\ ~isAllocated(Cur, last.v)

\* C10: setExternalDataPtr(ptr) from EMPTY or EXTERNAL with a non-null ptr ends
\* in state EXTERNAL holding ptr, applied exactly when described; with a null
\* ptr it ends in state EMPTY with a null external pointer, not applied; from
\* BUFFER, SCALAR or STRING it changes nothing.
C10_SetExternalDataPtr ==
  [][\A v \in ViewIds :
       (last'.v = v /\ last'.op = "setExternalDataPtr")
       => IF views[v].state \in {"EMPTY", "EXTERNAL"}
          THEN IF last'.arg # 0
               THEN /\ views'[v].state = "EXTERNAL"
                    /\ views'[v].ext = <<"ext", last'.arg>>
                    /\ views'[v].applied <=> isDescribed(Nxt, v)
               ELSE /\ views'[v].state = "EMPTY"
                    /\ views'[v].ext = NullPtr
                    /\ ~views'[v].applied
          ELSE views' = views /\ bufs' = bufs]_vars

\* a described EMPTY View has just been given an external pointer
C10_Witness ==
  /\ last.op = "setExternalDataPtr" /\ last.arg # 0 /\ last.pre = "EMPTY"
  /\ views[last.v].state = "EXTERNAL"
  /\ views[last.v].ext # NullPtr
  /\ isDescribed(Cur, last.v)
  /\ views[last.v].applied

\* C11: in every reachable state, the state right after importFrom included, a
\* View in state EXTERNAL holds a non-null external pointer (a View whose
\* external pointer is null is not in state EXTERNAL).
C11_ExternalHasPointer ==
  \A v \in ViewIds : views[v].state = "EXTERNAL" => views[v].ext # NullPtr

\* C12: in every reachable state a View in state EXTERNAL is applied exactly
\* when it is described.
C12_ExternalAppliedIffDescribed ==
  \A v \in ViewIds :
    views[v].state = "EXTERNAL" => (isApplied(Cur, v) <=> isDescribed(Cur, v))

\* C13: a View in state SCALAR or STRING is allocated and applied in every
\* reachable state, and no allocate, reallocate, deallocate, apply(),
\* attachBuffer or setExternalDataPtr call changes its state tag, its value or
\* those two flags.
C13_InlineAllocatedApplied ==
  /\ [](\A v \in ViewIds :
          views[v].state \in {"SCALAR", "STRING"}
            => isAllocated(Cur, v) /\ isApplied(Cur, v))
  /\ [][\A v \in ViewIds :
          (/\ last'.v = v
           /\ last'.op \in AllocOps \cup {"apply", "attachBuffer",
                                          "setExternalDataPtr"}
           /\ views[v].state \in {"SCALAR", "STRING"})
          => /\ views'[v].state = views[v].state
             /\ views'[v].value = views[v].value
             /\ isAllocated(Nxt, v) = isAllocated(Cur, v)
             /\ isApplied(Nxt, v) = isApplied(Cur, v)]_vars

\* C14: apply() is idempotent: a second apply() right after an apply() call
\* leaves the View's state, description, is-applied flag and data pointer (and
\* the Buffers) as the first call left them, whether apply is valid or rejected.
C14_ApplyIdempotent ==
  [][\A v \in ViewIds :
       (last'.v = v /\ last'.op = "apply")
       => /\ apply(Nxt, v).views = views'
          /\ apply(Nxt, v).bufs = bufs']_vars

\* apply() has just been called on a BUFFER View that it applied, and on
\* which a second apply() is valid as well
C14_Witness ==
  /\ last.op = "apply" /\ last.v \in ViewIds
  /\ views[last.v].state = "BUFFER"
  /\ views[last.v].applied
  /\ views[last.v].data # NullPtr
  /\ isApplyValid(Cur, last.v)

\* C15: for every element type and all non-negative num_elems, offset and
\* stride in the index range, after apply(num_elems, offset, stride) on a View
\* of that type getOffset() returns offset and getStride() returns stride.
C15_OffsetStrideRoundTrip ==
  last.op = "applyNOS" /\ "getOffset" \in DOMAIN last
    => /\ last.getOffset.returned /\ last.getOffset.ret = last.offset
       /\ last.getStride.returned /\ last.getStride.ret = last.stride

\* C16: when the stored byte offset (or byte stride) of a described View is
\* not a multiple of the element byte width, getOffset() (or getStride())
\* reports an error and goes on: the process is not ended, the View is
\* unchanged and no quotient is returned as a valid result.
C16_NonIntegralReported ==
  [][(/\ "getOffset" \in DOMAIN last'
      /\ last'.op = "applyDtype"
      /\ \/ cRem(toInt(last'.bytes_offset), bytesPerElem(last'.type)) # 0
         \/ cRem(toInt(last'.bytes_stride), bytesPerElem(last'.type)) # 0)
     => /\ ~aborted'
        /\ views' = views
        /\ last'.getOffset.error \/ last'.getStride.error
        /\ last'.getOffset.error => ~last'.getOffset.returned
        /\ last'.getStride.error => ~last'.getStride.returned]_vars

\* C17: apply(num_elems, offset, stride) on a View with no description and no
\* attached Buffer (EMPTY or EXTERNAL) is rejected: the View and the Buffers are
\* unchanged and the process goes on; nothing is read through the missing Buffer.
C17_ApplyUndescribedRejected ==
  [][\A v \in ViewIds :
       (/\ last'.op = "applyNOS" /\ last'.v = v
        /\ views[v].state \in {"EMPTY", "EXTERNAL"}
        /\ ~isDescribed(Cur, v)
        /\ ~hasBuffer(Cur, v))
       => /\ views' = views
          /\ bufs' = bufs
          /\ ~aborted']_vars

\* C18: rename(new_name) with a new_name other than the View's name that is
\* empty, holds the path delimiter, or is the name of a sibling View or of a
\* sibling Group returns false and leaves the View's name and the parent's
\* child Views and child Groups unchanged.
C18_RenameRejected ==
  [][\A v \in ViewIds :
       (/\ last'.op = "rename" /\ last'.v = v
        /\ last'.new_name # m_name[v]
        /\ \/ Len(last'.new_name) = 0
           \/ \E i \in 1 .. Len(last'.new_name) : last'.new_name[i] = "/"
           \/ \E w \in ViewIds : m_name[w] = last'.new_name
           \/ last'.new_name \in parent.groups)
       => /\ last'.ret = FALSE
          /\ m_name' = m_name
          /\ parent' = parent]_vars

\* a rename to the name of a sibling Group, after an earlier rename took place
C18_Witness ==
  /\ last.op = "rename"
  /\ last.new_name \in parent.groups
  /\ ~last.ret
  /\ m_name # InitialNames

\* C19: saving and loading keeps the sharing of Buffers: two Views are attached
\* to the same Buffer after the load if and only if they were attached to the
\* same Buffer before the save, whatever the new indices of the Buffers are.
C19_SharingPreserved ==
  [][last'.op = "load" =>
       \A v, w \in ViewIds :
         (hasBuffer(Nxt, v) /\ views'[v].buf = views'[w].buf)
           <=> (hasBuffer(Cur, v) /\ views[v].buf = views[w].buf)]_vars

\* a load after which the two Views share the one restored Buffer
C19_Witness ==
  /\ last.op = "load"
  /\ views["va"].buf # NoBuf
  /\ views["va"].buf = views["vb"].buf
  /\ bufs[views["va"].buf].views = {"va", "vb"}
  /\ Cardinality({b \in BufIds : bufs[b].exists}) = 1

\* C20: saving and loading keeps the applied flag of a View in state BUFFER:
\* after the load such a View is applied if and only if it was applied when it
\* was saved, also when it was described and attached to an allocated Buffer but
\* not applied.
C20_AppliedRoundTrip ==
  [][last'.op = "load" =>
       \A v \in ViewIds :
         views'[v].state = "BUFFER" => (isApplied(Nxt, v) <=> isApplied(Cur, v))]_vars

\* C21: after exportTo on every View, the shared index set holds exactly the
\* indices of the Buffers that have an attached View in state BUFFER; a Buffer
\* with no attached View is not in it, and only the Buffers in it are saved.
C21_ExportedAreReferenced ==
  /\ exportedIndices(Cur)
       = {b \in BufIds : bufs[b].exists /\ bufs[b].views # {}}
  /\ \A b \in exportedIndices(Cur) :
       \E v \in bufs[b].views : views[v].state = "BUFFER" /\ views[v].buf = b
  /\ DOMAIN save(Cur).buffers = exportedIndices(Cur)

\* one Buffer is referenced by a View, another exists with no View
C21_Witness ==
  /\ exportedIndices(Cur) # {}
  /\ \E b \in BufIds : bufs[b].exists /\ bufs[b].views = {}
  /\ \E b \in BufIds : b \notin DOMAIN save(Cur).buffers /\ bufs[b].exists

\* C22: isEquivalentTo(other) is true exactly when the two Views have the same
\* name, type id, applied flag, has-buffer flag and total bytes; it is reflexive
\* and symmetric and does not look at the Buffer the Views are attached to.
\* Checked between the Views of a tree and those of the tree loaded from its save.
C22_IsEquivalentTo ==
  [][last'.op = "load" =>
       \A v, w \in ViewIds :
         /\ isEquivalentTo(Cur, v, Nxt, w, m_name)
              <=> /\ v = w
                  /\ views[v].type = views'[w].type
                  /\ views[v].applied = views'[w].applied
                  /\ (views[v].buf = NoBuf) = (views'[w].buf = NoBuf)
                  /\ strided_bytes(schemaDtype(views[v]))
                       = strided_bytes(schemaDtype(views'[w]))
         /\ isEquivalentTo(Cur, v, Nxt, w, m_name)
              = isEquivalentTo(Nxt, w, Cur, v, m_name)
         /\ isEquivalentTo(Cur, v, Cur, v, m_name)
         /\ isEquivalentTo(Nxt, w, Nxt, w, m_name)]_vars

\* a load that gave the Buffer of an applied View a new index
C22_Witness ==
  /\ last.op = "load"
  /\ views["va"].state = "BUFFER"
  /\ views["va"].applied
  /\ views["va"].buf = 0
  /\ ~bufs[1].exists

\* C23: destroying a View that is the only View attached to its Buffer also
\* destroys the Buffer; destroying a View whose Buffer has other Views leaves
\* the Buffer alive, allocated as it was and attached to the remaining Views.
C23_DestroyViewCascades ==
  [][\A v \in ViewIds :
       (last'.op = "destroyView" /\ last'.v = v /\ hasBuffer(Cur, v))
       => LET b == views[v].buf
          IN IF bufs[b].views = {v}
             THEN ~bufs'[b].exists
             ELSE /\ bufs'[b].exists
                  /\ bufs'[b].allocated = bufs[b].allocated
                  /\ bufs'[b].views = bufs[b].views \ {v}
                  /\ \A w \in bufs'[b].views : views'[w] = views[w]]_vars

C25_ReallocateKeepsData ==
  [][last'.op = "Buffer::reallocate" =>
       LET b == last'.b
           old == bufs[b].num
           new == last'.num
       IN /\ bufs'[b].type = bufs[b].type
          /\ bufs'[b].num = new
          /\ BufferGetTotalBytes(Nxt, b) = new * bytesPerElem(bufs[b].type)
          /\ Len(data'[b]) = new
          /\ \A i \in 1 .. (IF old < new THEN old ELSE new) : data'[b][i] = data[b][i]]_vars

\* a reallocate after which the Buffer has the most elements of the model, the
\* first two holding 5 and 10
C25_Witness ==
  /\ last.op = "Buffer::reallocate"
  /\ Len(data[last.b]) = MaxDataElems
  /\ data[last.b][1] = 5 /\ data[last.b][2] = 10

\* C26: after construction from any int with a non-zero modulus and after any
\* sequence of ++, --, +=, -= and *= with int operands, the wrapped value v of
\* a ModularInt satisfies 0 <= v < modulus().
C26_ModularIntInvariant ==
  modint # NoModularInt => 0 <= modint.m_val /\ modint.m_val < modint.sz

\* C27: ModularInt arithmetic is arithmetic modulo m: for every v in [0, m) and
\* every int n, ModularInt(v, m) + n, - n and * n convert to the non-negative
\* residue of v + n, v - n and v * n modulo m, and a ModularInt made from any
\* value holds its residue.
C27_ModularArithmetic ==
  [][LET v == modint.m_val
         m == modint.sz
         n == last'.n
     IN /\ (last'.op \in {"+", "-", "*"} /\ m > 0 /\ 0 <= v /\ v < m)
             => /\ ~aborted'
                /\ last'.op = "+" => last'.ret = (v + (n % m)) % m
                /\ last'.op = "-" => last'.ret = (v + m - (n % m)) % m
                /\ last'.op = "*" => last'.ret = (v * (n % m)) % m
        /\ (last'.op = "ModularInt" /\ modint'.sz > 0)
             => ~aborted' /\ modint'.m_val = n % modint'.sz]_vars

\* C28: after any sequence of constructors, push_back, insert, emplace, erase,
\* clear, resize, reserve, shrink, swap, copy and move operations, every Array
\* object, a moved-from one included, has 0 <= size() <= capacity().
C28_SizeWithinCapacity ==
  \A x \in ArrayIds :
    arrays[x].exists =>
      0 <= arrays[x].m_num_elements /\ arrays[x].m_num_elements <= arrays[x].m_capacity

\* C29: after move construction or move assignment from an Array, the argument
\* is left empty: size() 0, capacity() 0, null data pointer, not external; the
\* destination holds the argument's former data, size, capacity and
\* externality.
C29_MovedFromIsEmpty ==
  [][\A x, y \in ArrayIds :
       (/\ last'.op \in {"Array(Array&&)", "operator=(Array&&)"}
        /\ last'.x = x /\ last'.y = y /\ x # y)
       => /\ arrays'[y].m_num_elements = 0
          /\ arrays'[y].m_capacity = 0
          /\ arrays'[y].m_data = NullPtr
          /\ ~arrays'[y].m_is_external
          /\ arrays'[x].m_data = arrays[y].m_data
          /\ arrays'[x].m_num_elements = arrays[y].m_num_elements
          /\ arrays'[x].m_capacity = arrays[y].m_capacity
          /\ arrays'[x].m_is_external = arrays[y].m_is_external]_vars

\* C30: an Array that wraps an external buffer has a fixed allocation: the
\* buffer is never reallocated or freed, a push_back, insert, resize or reserve
\* on it ends the process or leaves its buffer and capacity as they are, and
\* shrink() makes capacity() equal to size() for every Array.
C30_ExternalIsFixed ==
  /\ [](memory.external = "intact")
  /\ [][\A x \in ArrayIds :
          /\ (/\ last'.op \in {"push_back", "insert", "resize", "reserve"}
              /\ last'.x = x /\ arrays[x].m_is_external /\ ~aborted')
               => /\ arrays'[x].m_data = arrays[x].m_data
                  /\ arrays'[x].m_capacity = arrays[x].m_capacity
                  /\ arrays'[x].m_num_elements <= arrays[x].m_capacity
          /\ (last'.op = "shrink" /\ last'.x = x /\ ~aborted')
               => arrays'[x].m_capacity = arrays'[x].m_num_elements]_vars

\* C31: attachBuffer(buf) with a non-null Buffer on a View that is not in state
\* EMPTY changes nothing: the View keeps its state, its Buffer, pointer or
\* value and its applied flag, and no Buffer's attached-view set changes;
\* attachBuffer(null) on a View that is not in state BUFFER changes nothing.
C31_AttachBufferIgnored ==
  [][\A v \in ViewIds :
       (/\ last'.op = "attachBuffer"
        /\ last'.v = v
        /\ \/ last'.arg # NoBuf /\ views[v].state # "EMPTY"
           \/ last'.arg = NoBuf /\ views[v].state # "BUFFER")
       => views' = views /\ bufs' = bufs /\ ~aborted']_vars

\* attachBuffer has just been called with another existing Buffer on a View
\* that is in state BUFFER
C31_Witness ==
  /\ last.op = "attachBuffer"
  /\ last.pre = "BUFFER"
  /\ last.arg # NoBuf
  /\ last.arg # last.buf
  /\ bufs[last.arg].exists
  /\ views[last.v].state = "BUFFER"

\* C32: zero-length allocation is valid, in View and in DataView: allocate()
\* on a View described with zero elements, or allocate(type, 0) with a type,
\* on a View in state EMPTY or alone on its Buffer, ends in state BUFFER with
\* isAllocated() and isApplied() true, and a Buffer created by the call is
\* allocated with zero bytes.
C32_ZeroLengthAllocation ==
  [][\A v \in ViewIds :
       (/\ last'.v = v
        /\ last'.op \in {"View::allocate", "View::allocate(type, n)",
                         "DataView::allocate", "DataView::allocate(type, n)"}
        /\ last'.type # NO_TYPE_ID
        /\ last'.n = 0
        /\ isAllocateValid(Cur, v) \/ views[v].state = "EMPTY")
       => /\ views'[v].state = "BUFFER"
          /\ isAllocated(Nxt, v)
          /\ isApplied(Nxt, v)
          /\ views[v].state = "EMPTY"
               => /\ BufferIsAllocated(Nxt, views'[v].buf)
                  /\ BufferGetTotalBytes(Nxt, views'[v].buf) = 0]_vars

\* C33: a successful rename(new_name) is complete: it returns true, the View's
\* name is new_name, the parent has the View under new_name and no child under
\* the old name, the other children, the View's state, description and Buffer
\* link are unchanged; rename to the current name returns true and changes
\* nothing.
C33_RenameComplete ==
  [][\A v \in ViewIds :
       (last'.op = "rename" /\ last'.v = v)
       => /\ (/\ last'.new_name # m_name[v]
              /\ last'.new_name # <<>>
              /\ ~findDelimiter(last'.new_name)
              /\ ~hasView(parent, last'.new_name)
              /\ ~hasGroup(parent, last'.new_name))
               => /\ last'.ret = TRUE
                  /\ m_name'[v] = last'.new_name
                  /\ hasView(parent', last'.new_name)
                  /\ parent'.views[last'.new_name] = v
                  /\ ~hasView(parent', m_name[v])
                  /\ ~hasGroup(parent', m_name[v])
                  /\ parent'.groups = parent.groups
                  /\ \A w \in ViewIds \ {v} :
                       /\ m_name'[w] = m_name[w]
                       /\ hasView(parent', m_name[w])
                       /\ parent'.views[m_name[w]] = w
                  /\ DOMAIN parent'.views = {m_name'[w] : w \in ViewIds}
                  /\ views' = views
                  /\ bufs' = bufs
          /\ last'.new_name = m_name[v]
               => /\ last'.ret = TRUE
                  /\ m_name' = m_name
                  /\ parent' = parent
                  /\ views' = views
                  /\ bufs' = bufs]_vars

\* a successful rename has just taken place, and by now both Views carry a
\* name other than their first
C33_Witness ==
  /\ last.op = "rename"
  /\ last.ret
  /\ m_name[last.v] = last.new_name
  /\ \A w \in ViewIds : m_name[w] # InitialNames[w]
  /\ hasView(parent, last.new_name)
  /\ ~hasView(parent, InitialNames[last.v])

\* C34: reallocate(n) with n < 0 changes nothing; reallocate(dtype) on an
\* allocated View with an empty dtype or a type other than the View's changes
\* neither the View nor a Buffer; reallocate(n) with n >= 0 on a described
\* View that is alone on an allocated Buffer keeps the View's type, sets the
\* description and the Buffer to n elements and leaves the View applied.
C34_Reallocate ==
  [][\A v \in ViewIds :
       /\ (/\ last'.op = "View::reallocate(n)" /\ last'.v = v /\ last'.n < 0)
            => views' = views /\ bufs' = bufs
       /\ (/\ last'.op \in {"View::reallocate(dtype)", "DataView::reallocate(dtype)"}
           /\ last'.v = v
           /\ isAllocated(Cur, v)
           /\ last'.type = NO_TYPE_ID \/ last'.type # views[v].type)
            => views' = views /\ bufs' = bufs
       /\ (/\ last'.op = "View::reallocate(n)" /\ last'.v = v /\ last'.n >= 0
           /\ views[v].state = "BUFFER"
           /\ isAllocateValid(Cur, v)
           /\ BufferIsAllocated(Cur, views[v].buf))
            => /\ views'[v].state = "BUFFER"
               /\ views'[v].buf = views[v].buf
               /\ views'[v].type = views[v].type
               /\ views'[v].num = last'.n
               /\ bufs'[views[v].buf].num = last'.n
               /\ BufferIsAllocated(Nxt, views[v].buf)
               /\ isApplied(Nxt, v)]_vars

\* C35: deallocate() on a described View that is the only View of its Buffer
\* releases the Buffer's memory, the View stays in state BUFFER on the same
\* Buffer, isAllocated() is false and getVoidPtr() does not return the address
\* of the released memory; deallocate() in state EXTERNAL, SCALAR or STRING,
\* or on a Buffer shared with another View, changes nothing.
C35_DeallocateReleases ==
  [][\A v \in ViewIds :
       (last'.op = "deallocate" /\ last'.v = v)
       => /\ (/\ views[v].state = "BUFFER"
              /\ isDescribed(Cur, v)
              /\ BufferGetNumViews(Cur, views[v].buf) = 1)
               => /\ views'[v].state = "BUFFER"
                  /\ views'[v].buf = views[v].buf
                  /\ ~BufferIsAllocated(Nxt, views[v].buf)
                  /\ ~isAllocated(Nxt, v)
                  /\ BufferIsAllocated(Cur, views[v].buf)
                       => getVoidPtr(Nxt, v) # BufferGetVoidPtr(Cur, views[v].buf)
          /\ (views[v].state \in {"EXTERNAL", "SCALAR", "STRING"} \/ Shared(v))
               => views' = views /\ bufs' = bufs]_vars

\* C36: export then import keeps each View's state tag and description: the
\* restored View has the state, the type, element count, offset and stride
\* and the shape of the exported View, except that an EXTERNAL View without a
\* description is exported and restored as EMPTY; buffer_id and is_applied are
\* written only for a BUFFER View and value only for a SCALAR or STRING View.
C36_ExportImportKeepsDescription ==
  /\ [](\A v \in ViewIds :
          LET dh == exportTo(Cur, v)
          IN /\ (dh.has_buffer_id \/ dh.is_applied) => views[v].state = "BUFFER"
             /\ dh.has_value => views[v].state \in {"SCALAR", "STRING"})
  /\ [][last'.op = "load" =>
          \A v \in ViewIds :
            /\ views'[v].state =
                 IF views[v].state = "EXTERNAL" /\ ~isDescribed(Cur, v)
                 THEN "EMPTY" ELSE views[v].state
            /\ views'[v].type = views[v].type
            /\ views'[v].num = views[v].num
            /\ views'[v].offset = views[v].offset
            /\ views'[v].stride = views[v].stride
            /\ views'[v].shape = views[v].shape]_vars

\* C37: importFrom of a BUFFER-state View node whose buffer_id has no entry in
\* the map of old to new ids ends the process; no load attaches a View to a
\* Buffer other than the one the map gives for its saved id, or leaves a View
\* in state BUFFER without a Buffer.
C37_UnmappedBufferIdAborts ==
  [][last'.op \in {"load", "loadCorrupted"} =>
       LET doc == IF last'.op = "load" THEN save(Cur)
                  ELSE corrupted(Cur, last'.v, last'.arg)
           map == bufferIdMap(doc)
       IN /\ last'.op = "loadCorrupted" => aborted'
          /\ \A v \in ViewIds :
               /\ views'[v].state = "BUFFER" => hasBuffer(Nxt, v)
               /\ hasBuffer(Nxt, v) =>
                    /\ doc.views[v].has_buffer_id
                    /\ doc.views[v].buffer_id \in DOMAIN map
                    /\ views'[v].buf = map[doc.views[v].buffer_id]
               /\ \A b \in BufIds : v \in bufs'[b].views => views'[v].buf = b]_vars

\* a document with an unmapped buffer_id was loaded: the process has ended,
\* with the Buffers of the document restored and the View not attached
C37_Witness ==
  /\ last.op = "loadCorrupted"
  /\ aborted
  /\ \E b \in BufIds : bufs[b].exists
  /\ views[last.v].buf = NoBuf
  /\ views[last.v].state # "BUFFER"

\* C38: during import an attribute name of the document that the DataStore
\* does not define is skipped silently: the View's other attribute values are
\* restored, its state and description are those of a load of the document
\* without that entry, and the process goes on.
C38_UnknownAttributeSkipped ==
  [][last'.op = "loadAttributes" =>
       /\ ~aborted'
       /\ \A v \in ViewIds :
            LET node == exportAttribute(m_attr_values[v])
                known == (DOMAIN node) \cap attributes'
            IN /\ DOMAIN m_attr_values'[v] = known
               /\ \A n \in known : m_attr_values'[v][n] = node[n]
               /\ views'[v] = load(save(Cur)).views[v]
               /\ views'[v].state = views[v].state
               /\ views'[v].shape = views[v].shape]_vars

\* a load has skipped an attribute name and restored the value of another
\* Attribute on a View that is in state BUFFER
C38_Witness ==
  /\ last.op = "loadAttributes"
  /\ last.skipped # {}
  /\ ~aborted
  /\ \E v \in ViewIds :
       /\ DOMAIN m_attr_values[v] # {}
       /\ DOMAIN m_attr_values[v] \cap last.skipped = {}
       /\ views[v].state = "BUFFER"

\* C39: in every reachable state a View is in state BUFFER exactly when it
\* holds a Buffer, a View is in the set of attached Views of a Buffer exactly
\* when that Buffer is the one the View holds, and the number of Views of a
\* Buffer is the number of Views in state BUFFER that hold it.
C39_BackReferencesAgree ==
  /\ \A v \in ViewIds : (views[v].state = "BUFFER") <=> (views[v].buf # NoBuf)
  /\ \A v \in ViewIds, b \in BufIds : (v \in bufs[b].views) <=> (views[v].buf = b)
  /\ \A b \in BufIds :
       BufferGetNumViews(Cur, b) =
         Cardinality({v \in ViewIds : views[v].state = "BUFFER" /\ views[v].buf = b})

\* a View in state BUFFER has just been copied: the Buffer has both Views
C39_Witness ==
  /\ last.op = "copyView"
  /\ last.pre = "BUFFER"
  /\ BufferGetNumViews(Cur, last.buf) = 2
  /\ \A v \in ViewIds : views[v].state = "BUFFER" /\ views[v].buf = last.buf

\* C40: the names of the states round-trip: getStateId of the name of each of
\* the five states is that state, the five names differ from one another, and
\* every other string, "UNKNOWN" among them, stands for EMPTY.
C40_StateNamesRoundTrip ==
  /\ \A s \in States : getStateId(getStateStringName(s)) = s
  /\ \A s, t \in States : s # t => getStateStringName(s) # getStateStringName(t)
  /\ \A name \in NameInputs \ {getStateStringName(s) : s \in States} :
       getStateId(name) = "EMPTY"
  /\ (last.op = "getStateStringName" /\ last.state \in States)
       => last.id = last.state
  /\ (last.op = "getStateStringName" /\ last.state \notin States)
       => last.name = "UNKNOWN" /\ last.id = "EMPTY"
  /\ (last.op = "getStateId"
        /\ last.name \notin {getStateStringName(s) : s \in States})
       => last.id = "EMPTY"

\* the name of the state of a View in state STRING has been taken, and the
\* name stands for STRING
C40_Witness ==
  /\ last.op = "getStateStringName"
  /\ last.v # NoView
  /\ views[last.v].state = "STRING"
  /\ last.state = "STRING"
  /\ last.name = "STRING"
  /\ last.id = "STRING"

====
